---- MODULE Spec2Model ----
(***************************************************************************)
(* Model of the multi-stage hybrid retrieval pipeline of agentic-rag-sdk:   *)
(*   src/src/grounding/query/query_adk.py   (search_adk and its helpers)    *)
(*   src/src/grounding/query/retriever.py   (retrieve_adk_evidence)         *)
(*                                                                          *)
(* A candidate is a Python dict, modelled as a TLA+ record whose DOMAIN is  *)
(* the set of keys the dict holds: "rrf_score" and "rerank_score" are       *)
(* absent until the stage that sets them has run.                           *)
(*                                                                          *)
(* Scores are exact rationals.  A vector-store score and a reranker         *)
(* relevance score are small integers; an RRF score is kept as the integer  *)
(* numerator over the fixed denominator ScoreDen(k), so 1/(k+rank) is the   *)
(* integer ScoreDen(k) \div (k+rank) with no rounding.                      *)
(***************************************************************************)
EXTENDS Integers, Sequences, FiniteSets, TLC

(***************************************************************************)
(* Bounds of the exploration.                                               *)
(***************************************************************************)
\* hits the vector store returns to one single-query search
MaxPoints == 6
\* length of a candidate list handed directly to a pure helper
MaxCands == 4
\* largest top_k / top_k_final / target_size a caller asks for
MaxTopK == 4
\* largest rerank_candidates a caller asks for
MaxRerankCandidates == 2
\* largest min_docs / min_code / non-default min_per_type a caller passes
MaxMin == 2
\* number of ranked lists handed directly to reciprocal_rank_fusion
MaxLists == 2
\* length of one ranked list that is fused (bounds the ranks, hence ScoreDen)
MaxFuseLen == 2
\* results in all the lists of one direct reciprocal_rank_fusion call
MaxFuseHits == 3

(***************************************************************************)
(* Program constants.                                                       *)
(***************************************************************************)
\* reciprocal_rank_fusion(results_lists, k=60)
RRF_K_DEFAULT == 60
\* balance_candidate_pool(candidates, target_size, min_per_type=10)
MIN_PER_TYPE_DEFAULT == 10
\* apply_coverage_gates(candidates, top_k, min_docs=3, min_code=3)
MIN_DOCS_DEFAULT == 3
MIN_CODE_DEFAULT == 3
\* retrieve_adk_evidence: min_each = 3
MIN_EACH == 3
\* search_adk(first_stage_k=80)
FIRST_STAGE_K_DEFAULT == 80
\* generate_query_variations: the templates list holds three templates
NUM_TEMPLATES == 3

(***************************************************************************)
(* Python helpers.                                                          *)
(***************************************************************************)
Min(a, b) == IF a <= b THEN a ELSE b
Max(a, b) == IF a >= b THEN a ELSE b

\* dict.get(key, default)
Get(d, key, default) == IF key \in DOMAIN d THEN d[key] ELSE default

\* dict.copy() followed by d[key] = value
SetKey(d, key, value) == (key :> value) @@ d

\* the slice s[:n]
Take(s, n) ==
  IF n >= 0 THEN SubSeq(s, 1, Min(n, Len(s)))
            ELSE SubSeq(s, 1, Max(Len(s) + n, 0))

\* [c for c in candidates if c.get("kind") == kind]
OfKind(candidates, kind) ==
  SelectSeq(candidates, LAMBDA c : Get(c, "kind", "None") = kind)

\* sum(1 for c in selected if c.get("kind") == kind)
CountKind(candidates, kind) == Len(OfKind(candidates, kind))

\* {c["id"] for c in candidates}
IdsOf(candidates) == {candidates[i]["id"] : i \in 1..Len(candidates)}

\* sorted(seq, key=Key, reverse=True) and list.sort(key=Key, reverse=True):
\* descending by key, elements of equal key keep their original order.
\* `keys` holds the key of each element of `seq`, position by position.
SortDescUnstable(seq, keys) ==
  LET n == Len(seq)
      pos(i) == 1 + Cardinality({j \in 1..n : keys[j] > keys[i]})
                  + Cardinality({j \in 1..n : j > i /\ keys[j] = keys[i]})
  IN  [p \in 1..n |-> seq[CHOOSE i \in 1..n : pos(i) = p]]

SortDesc(seq, keys) ==
  LET n == Len(seq)
      pos(i) == 1 + Cardinality({j \in 1..n : keys[j] > keys[i]})
                  + Cardinality({j \in 1..n : j < i /\ keys[j] = keys[i]})
  IN  [p \in 1..n |-> seq[CHOOSE i \in 1..n : pos(i) = p]]

(***************************************************************************)
(* apply_coverage_gates  (query_adk.py 203-252)                             *)
(***************************************************************************)
\* for c in items: if c["id"] not in selected_ids: selected.append(c); ...
RECURSIVE ForceInclude(_, _)
ForceInclude(selected, items) ==
  IF items = <<>> THEN selected
  ELSE LET c == Head(items)
       IN  ForceInclude(IF c["id"] \in IdsOf(selected) THEN selected
                                                      ELSE Append(selected, c),
                        Tail(items))

\* the fill walking the candidates from the lowest-ranked end
RECURSIVE FillRemainingFromTail(_, _, _)
FillRemainingFromTail(selected, candidates, remaining) ==
  IF candidates = <<>> \/ remaining <= 0 THEN selected
  ELSE LET n == Len(candidates)
           c == candidates[n]
       IN  IF c["id"] \in IdsOf(selected)
             THEN FillRemainingFromTail(selected, SubSeq(candidates, 1, n - 1), remaining)
             ELSE FillRemainingFromTail(Append(selected, c), SubSeq(candidates, 1, n - 1),
                                        remaining - 1)

\* the fill using up a slot for a candidate that is already selected
RECURSIVE FillRemainingCountsSkipped(_, _, _)
FillRemainingCountsSkipped(selected, candidates, remaining) ==
  IF candidates = <<>> \/ remaining <= 0 THEN selected
  ELSE LET c == Head(candidates)
       IN  FillRemainingCountsSkipped(IF c["id"] \in IdsOf(selected)
                                        THEN selected ELSE Append(selected, c),
                                      Tail(candidates), remaining - 1)

\* for c in candidates: if remaining <= 0: break; if new: append; remaining -= 1
RECURSIVE FillRemaining(_, _, _)
FillRemaining(selected, candidates, remaining) ==
  IF candidates = <<>> \/ remaining <= 0 THEN selected
  ELSE LET c == Head(candidates)
       IN  IF c["id"] \in IdsOf(selected)
             THEN FillRemaining(selected, Tail(candidates), remaining)
             ELSE FillRemaining(Append(selected, c), Tail(candidates), remaining - 1)

\* key=lambda x: x.get("rerank_score", x.get("rrf_score", 0))
GateSortKey(x) == Get(x, "rerank_score", Get(x, "rrf_score", 0))

\* selected.sort(key=..., reverse=True)
SortSelected(selected) ==
  SortDesc(selected, [i \in 1..Len(selected) |-> GateSortKey(selected[i])])

CoverageWarning(final_docs, final_code, min_docs, min_code) ==
  [warning |-> "Coverage gate", docs |-> final_docs, code |-> final_code,
   wanted_docs |-> min_docs, wanted_code |-> min_code]

\* if final_docs < min_docs or final_code < min_code
GateShortfallBoth(final_docs, final_code, min_docs, min_code) ==
  final_docs < min_docs /\ final_code < min_code

GateShortfall(final_docs, final_code, min_docs, min_code) ==
  final_docs < min_docs \/ final_code < min_code

GateResult(selected, min_docs, min_code) ==
  LET final_docs == CountKind(selected, "doc")
      final_code == CountKind(selected, "code")
  IN  [selected |-> selected,
       warnings |-> IF GateShortfall(final_docs, final_code, min_docs, min_code)
                      THEN <<CoverageWarning(final_docs, final_code, min_docs, min_code)>>
                      ELSE <<>>]

GateFilled(candidates, top_k, min_docs, min_code) ==
  LET doc_candidates  == OfKind(candidates, "doc")
      code_candidates == OfKind(candidates, "code")
      forced_docs == ForceInclude(<<>>, Take(doc_candidates, min_docs))
      forced      == ForceInclude(forced_docs, Take(code_candidates, min_code))
  IN  FillRemaining(forced, candidates, top_k - Len(forced))

apply_coverage_gates_truncated(candidates, top_k, min_docs, min_code) ==
  GateResult(Take(SortSelected(GateFilled(candidates, top_k, min_docs, min_code)), top_k),
             min_docs, min_code)

apply_coverage_gates(candidates, top_k, min_docs, min_code) ==
  GateResult(SortSelected(GateFilled(candidates, top_k, min_docs, min_code)),
             min_docs, min_code)

(***************************************************************************)
(* balance_candidate_pool  (query_adk.py 172-200)                           *)
(***************************************************************************)
\* docs_to_take = code_to_take = max(min_per_type, target_size // 2)
PerTypeQuotaMin(target_size, min_per_type) == Min(min_per_type, target_size \div 2)

PerTypeQuota(target_size, min_per_type) == Max(min_per_type, target_size \div 2)

\* all_remaining = [c for c in candidates if c["id"] not in {b["id"] for b in balanced}]
AllRemainingUnfiltered(candidates, balanced) == candidates

AllRemaining(candidates, balanced) ==
  SelectSeq(candidates, LAMBDA c : c["id"] \notin IdsOf(balanced))

balance_candidate_pool(candidates, target_size, min_per_type) ==
  LET doc_candidates  == OfKind(candidates, "doc")
      code_candidates == OfKind(candidates, "code")
      docs_to_take == PerTypeQuota(target_size, min_per_type)
      code_to_take == PerTypeQuota(target_size, min_per_type)
      balanced  == Take(doc_candidates, docs_to_take) \o Take(code_candidates, code_to_take)
      remaining == target_size - Len(balanced)
  IN  IF remaining > 0
        THEN balanced \o Take(AllRemaining(candidates, balanced), remaining)
        ELSE balanced

(***************************************************************************)
(* reciprocal_rank_fusion  (query_adk.py 142-169)                           *)
(***************************************************************************)
\* common denominator of 1/(k+1) .. 1/(k+MaxFuseLen)
RECURSIVE RankProduct(_, _)
RankProduct(k, r) == IF r <= 0 THEN 1 ELSE (k + r) * RankProduct(k, r - 1)

ScoreDen(k) == RankProduct(k, MaxFuseLen)

\* 1.0 / (k + rank), as a numerator over ScoreDen(k)
Reciprocal(k, rank) == ScoreDen(k) \div (k + rank)

\* enumerate(results, start=1): the rank of the element at 1-based index i
EnumerateRankFromZero(i) == i - 1

EnumerateRank(i) == i

\* scores[doc_id] += 1.0 / (k + rank); if doc_id not in doc_map: doc_map[doc_id] = doc
\* `acc` lists the keys of `scores` in insertion order, each with its running
\* score and its doc_map entry.
AccumulateNoDedup(acc, doc, k, rank) ==
  Append(acc, [id |-> doc["id"], score |-> Reciprocal(k, rank), doc |-> doc])

AccumulateLastSeen(acc, doc, k, rank) ==
  IF \E j \in 1..Len(acc) : acc[j].id = doc["id"]
    THEN [j \in 1..Len(acc) |->
            IF acc[j].id = doc["id"]
              THEN [acc[j] EXCEPT !.score = @ + Reciprocal(k, rank), !.doc = doc]
              ELSE acc[j]]
    ELSE Append(acc, [id |-> doc["id"], score |-> Reciprocal(k, rank), doc |-> doc])

Accumulate(acc, doc, k, rank) ==
  IF \E j \in 1..Len(acc) : acc[j].id = doc["id"]
    THEN [j \in 1..Len(acc) |->
            IF acc[j].id = doc["id"]
              THEN [acc[j] EXCEPT !.score = @ + Reciprocal(k, rank)]
              ELSE acc[j]]
    ELSE Append(acc, [id |-> doc["id"], score |-> Reciprocal(k, rank), doc |-> doc])

\* for rank, doc in enumerate(results, start=1): ...
RECURSIVE ScanResults(_, _, _, _)
ScanResults(acc, results, i, k) ==
  IF i > Len(results) THEN acc
  ELSE ScanResults(Accumulate(acc, results[i], k, EnumerateRank(i)), results, i + 1, k)

\* for results in results_lists: ...
RECURSIVE ScanLists(_, _, _)
ScanLists(acc, results_lists, k) ==
  IF results_lists = <<>> THEN acc
  ELSE ScanLists(ScanResults(acc, Head(results_lists), 1, k), Tail(results_lists), k)

reciprocal_rank_fusion(results_lists, k) ==
  LET scored == ScanLists(<<>>, results_lists, k)
      ranked == SortDesc(scored, [i \in 1..Len(scored) |-> scored[i].score])
  IN  [i \in 1..Len(ranked) |-> SetKey(ranked[i].doc, "rrf_score", ranked[i].score)]

(***************************************************************************)
(* The environment: what the vector store and the reranker may answer.      *)
(***************************************************************************)
\* payload "kind" of a stored point (config.py CorpusConfig.kind: doc or code)
PointKinds == {"doc", "code"}

\* any value c.get("kind") may take in a list handed to a helper directly
Kinds == {"doc", "code", "other"}

\* Ids are compared for equality only, so a response names a point it is the
\* first to surface by the least unused id; a point surfaced before keeps its
\* id and its kind.  `known` is the sequence of kinds of the ids seen so far.
NextPoints(known, s, kinds) ==
  LET used  == {s[i].id : i \in 1..Len(s)}
      fresh == Cardinality(used \cup (1..Len(known))) + 1
  IN  {[id |-> i, kind |-> known[i]] : i \in (1..Len(known)) \ used}
        \cup {[id |-> fresh, kind |-> kd] : kd \in kinds}

RECURSIVE PointsOfLen(_, _, _)
PointsOfLen(known, m, kinds) ==
  IF m = 0 THEN {<<>>}
  ELSE UNION {{Append(s, p) : p \in NextPoints(known, s, kinds)}
                : s \in PointsOfLen(known, m - 1, kinds)}

\* the responses query_points may give: at most `limit` points, distinct ids
Responses(known, limit, kinds) == UNION {PointsOfLen(known, m, kinds) : m \in 0..limit}

\* kinds of the ids 1..n surfaced by the responses so far
KnownKinds(results_lists) ==
  LET all == UNION {{results_lists[l][i] : i \in 1..Len(results_lists[l])}
                      : l \in 1..Len(results_lists)}
      n   == Cardinality({c["id"] : c \in all})
  IN  [i \in 1..n |-> (CHOOSE c \in all : c["id"] = i)["kind"]]

\* results.append({"id": point.id, ..., "kind": ..., "score": point.score, "reranked": False})
\* query_adk.py 391-406; the store returns points by descending fusion score.
ResultsOf(points) ==
  [i \in 1..Len(points) |->
     [id |-> points[i].id, kind |-> points[i].kind,
      score |-> Len(points) - i + 1, reranked |-> FALSE]]

\* candidate lists handed to a helper directly: ids 1..m, any kinds.
\*   "raw":      as built from a vector-store response
\*   "fused":    as returned by reciprocal_rank_fusion (rrf_score, descending)
\*   "reranked": as mapped back from the reranker (rerank_score, descending)
Profiles == {"raw", "fused", "reranked"}

CandidateOf(i, m, kind, profile) ==
  LET raw == [id |-> i, kind |-> kind, score |-> m - i + 1, reranked |-> FALSE]
  IN  CASE profile = "raw"      -> raw
        [] profile = "fused"    -> SetKey(raw, "rrf_score", m - i + 1)
        [] profile = "reranked" ->
             SetKey(SetKey(raw, "rerank_score", m - i + 1), "reranked", TRUE)

CandidateLists(profile) ==
  UNION {{[i \in 1..m |-> CandidateOf(i, m, ks[i], profile)] : ks \in [1..m -> Kinds]}
           : m \in 0..MaxCands}

\* the orders in which the reranker may rank n documents (1-based indices)
KindFirst(docs, kind) ==
  LET idx == [i \in 1..Len(docs) |-> i]
  IN  SelectSeq(idx, LAMBDA i : docs[i]["kind"] = kind)
        \o SelectSeq(idx, LAMBDA i : docs[i]["kind"] # kind)

RerankOrders(docs) ==
  {[i \in 1..Len(docs) |-> i], [i \in 1..Len(docs) |-> Len(docs) - i + 1],
   KindFirst(docs, "doc"), KindFirst(docs, "code")}

\* a reranker answer: the top_k best documents by descending relevance
RerankResults(docs, top_k) ==
  {[m \in 1..Min(top_k, Len(docs)) |->
      [index |-> order[m], relevance_score |-> Len(docs) - m + 1]]
     : order \in RerankOrders(docs)}

(***************************************************************************)
(* Python objects.  Dicts and lists are passed by reference: a helper that  *)
(* is handed a list can change the list, and the dicts in it, for its       *)
(* caller.  A heap holds the dicts and the lists of one helper call, each   *)
(* at an address (its position in .dicts or .lists); a list holds the       *)
(* addresses of its dicts.                                                  *)
(***************************************************************************)
EmptyHeap == [dicts |-> <<>>, lists |-> <<>>]

\* one list argument: its dicts at addresses 1..n, the list at list address 1
HeapOfList(cands) ==
  [dicts |-> cands, lists |-> <<[i \in 1..Len(cands) |-> i]>>]

\* a list of lists (results_lists): list number l at list address l
RECURSIVE HeapOfLists(_, _)
HeapOfLists(h, ls) ==
  IF ls = <<>> THEN h
  ELSE HeapOfLists(
         [dicts |-> h.dicts \o Head(ls),
          lists |-> Append(h.lists, [i \in 1..Len(Head(ls)) |-> Len(h.dicts) + i])],
         Tail(ls))

\* x = []: the new list is the last one
NewList(h) == [h EXCEPT !.lists = Append(@, <<>>)]

\* l.append(x), l.extend(xs)
ListExtend(h, l, addrs) == [h EXCEPT !.lists[l] = @ \o addrs]

\* l.sort(key=..., reverse=True) sorts the list in place
ListSortDesc(h, l, keys) == [h EXCEPT !.lists[l] = SortDesc(@, keys)]

\* d.copy() gives a new dict with the same items
DictCopyAliased(h, a) == [heap |-> h, addr |-> a]

DictCopy(h, a) ==
  [heap |-> [h EXCEPT !.dicts = Append(@, h.dicts[a])], addr |-> Len(h.dicts) + 1]

\* d[key] = value
DictSet(h, a, key, value) == [h EXCEPT !.dicts[a] = SetKey(@, key, value)]

\* the dicts a list holds, in its order
Deref(h, l) == [i \in 1..Len(h.lists[l]) |-> h.dicts[h.lists[l][i]]]

\* the same, each dict tagged with the address it lives at, so that the
\* dicts a helper picks can be traced back to their objects
Addressed(h, l) ==
  [i \in 1..Len(h.lists[l]) |-> SetKey(h.dicts[h.lists[l][i]], "addr", h.lists[l][i])]

AddressesOf(records) == [i \in 1..Len(records) |-> records[i]["addr"]]

\* reciprocal_rank_fusion (163-167): for doc_id in ranked_ids:
\*   doc = doc_map[doc_id].copy(); doc["rrf_score"] = ...; fused_results.append(doc)
RECURSIVE FuseLoop(_, _, _, _)
FuseLoop(h, fused_results, ranked, doc_map) ==
  IF ranked = <<>> THEN h
  ELSE LET doc    == DictCopy(h, doc_map[Head(ranked)["id"]])
           scored == DictSet(doc.heap, doc.addr, "rrf_score", Head(ranked)["rrf_score"])
       IN  FuseLoop(ListExtend(scored, fused_results, <<doc.addr>>), fused_results,
                    Tail(ranked), doc_map)

\* doc_map holds the first dict seen with each id (158-159); the lists are
\* laid out in the order they are scanned
FusionOnHeap(results_lists, k) ==
  LET h0      == HeapOfLists(EmptyHeap, results_lists)
      ids     == {h0.dicts[a]["id"] : a \in 1..Len(h0.dicts)}
      doc_map == [id \in ids |->
                    CHOOSE a \in 1..Len(h0.dicts) :
                      /\ h0.dicts[a]["id"] = id
                      /\ \A b \in 1..(a - 1) : h0.dicts[b]["id"] # id]
      h1      == NewList(h0)
  IN  FuseLoop(h1, Len(h1.lists), reciprocal_rank_fusion(results_lists, k), doc_map)

\* balance_candidate_pool (182-200): the comprehensions and slices are new
\* lists of the same dicts; balanced = [] is extended with them
BalanceOnHeap(candidates, target_size, min_per_type) ==
  LET h0       == HeapOfList(candidates)
      balanced == balance_candidate_pool(Addressed(h0, 1), target_size, min_per_type)
      h1       == NewList(h0)
  IN  ListExtend(h1, Len(h1.lists), AddressesOf(balanced))

\* the rerank mapping of search_adk (462-469): for result in reranking.results:
\*   original = balanced_candidates[result.index].copy(); original[...] = ...
RECURSIVE MapLoop(_, _, _, _)
MapLoop(h, reranked_candidates, results, pool) ==
  IF results = <<>> THEN h
  ELSE LET result   == Head(results)
           original == DictCopy(h, h.lists[pool][result.index])
           scored   == DictSet(original.heap, original.addr, "rerank_score",
                               result.relevance_score)
           flagged  == DictSet(scored, original.addr, "reranked", TRUE)
       IN  MapLoop(ListExtend(flagged, reranked_candidates, <<original.addr>>),
                   reranked_candidates, Tail(results), pool)

RerankMappingOnHeap(balanced, results) ==
  LET h1 == NewList(HeapOfList(balanced))
  IN  MapLoop(h1, Len(h1.lists), results, 1)

\* apply_coverage_gates (214-243): selected = [] receives the forced and the
\* filled dicts themselves; selected.sort(...) sorts that new list
GateOnHeap(cands, top_k, min_docs, min_code) ==
  LET h0     == HeapOfList(cands)
      picked == GateFilled(Addressed(h0, 1), top_k, min_docs, min_code)
      h1     == NewList(h0)
      h2     == ListExtend(h1, Len(h1.lists), AddressesOf(picked))
  IN  ListSortDesc(h2, Len(h2.lists), [i \in 1..Len(picked) |-> GateSortKey(picked[i])])

(***************************************************************************)
(* State.                                                                   *)
(***************************************************************************)
VARIABLES
  pc,                  \* position in the running call
  inp,                 \* the call: its function and arguments
  out,                 \* its return value, once it has returned
  query_variations,    \* search_adk: the query variants to search
  all_results,         \* search_adk: one result list per variant searched
  candidates,          \* search_adk: fused, later reranked, candidates
  balanced_candidates, \* search_adk: the pool sent to the reranker
  final_results,       \* search_adk: the gated selection
  warnings,            \* search_adk / retrieve_adk_evidence: warnings
  candidates_list,     \* retrieve_adk_evidence: deduplicated points
  scored_candidates,   \* retrieve_adk_evidence: reranker results with points
  final_evidence,      \* retrieve_adk_evidence: the selection
  query_filter,        \* search_adk: the filter built from `filters`
  calls,               \* the calls made so far, in order, with what they carried
  settings_cache,      \* get_settings: the entries of its lru_cache, oldest first
  settings_loads,      \* get_settings: how often the configuration files were loaded
  settings_returned,   \* get_settings: per call, its arguments and the instance returned
  heap,                \* the dicts and lists of the helper call made last
  tasks                \* the rag_search calls in flight in one server process

searchVars   == <<query_variations, all_results, candidates, balanced_candidates,
                  final_results, query_filter>>
retrieveVars == <<candidates_list, scored_candidates, final_evidence>>
settingsVars == <<settings_cache, settings_loads, settings_returned>>
vars == <<pc, inp, out, warnings, calls, searchVars, retrieveVars, settingsVars, heap,
          tasks>>

NoValue == [status |-> "running"]

\* query_filter = None
NoFilter == [must |-> <<>>, none |-> TRUE]

IdlePipeline ==
  /\ out = NoValue
  /\ query_variations = <<>>
  /\ all_results = <<>>
  /\ candidates = <<>>
  /\ balanced_candidates = <<>>
  /\ final_results = <<>>
  /\ warnings = <<>>
  /\ candidates_list = <<>>
  /\ scored_candidates = <<>>
  /\ final_evidence = <<>>
  /\ query_filter = NoFilter
  /\ calls = <<>>
  /\ settings_cache = <<>>
  /\ settings_loads = 0
  /\ settings_returned = <<>>

IdleLocals ==
  /\ IdlePipeline
  /\ heap = EmptyHeap
  /\ tasks = <<>>

(***************************************************************************)
(* Direct calls of the pure helpers, inputs drawn from the bounded sets.    *)
(***************************************************************************)
InitGate ==
  /\ pc = "call"
  /\ inp \in {[fn |-> "apply_coverage_gates", candidates |-> cs, top_k |-> t,
               min_docs |-> md, min_code |-> mc]
                : cs \in CandidateLists("raw") \cup CandidateLists("reranked"),
                  t \in 0..MaxTopK, md \in 0..MaxMin, mc \in 0..MaxMin}
  /\ IdleLocals

CallGate ==
  /\ pc = "call"
  /\ inp.fn = "apply_coverage_gates"
  /\ out' = apply_coverage_gates(inp.candidates, inp.top_k, inp.min_docs, inp.min_code)
  /\ heap' = GateOnHeap(inp.candidates, inp.top_k, inp.min_docs, inp.min_code)
  /\ pc' = "return"
  /\ UNCHANGED <<inp, warnings, searchVars, retrieveVars, calls, settingsVars, tasks>>

InitBalance ==
  /\ pc = "call"
  /\ inp \in {[fn |-> "balance_candidate_pool", candidates |-> cs, target_size |-> t,
               min_per_type |-> m]
                : cs \in CandidateLists("raw"), t \in 0..MaxTopK,
                  m \in (0..MaxMin) \cup {MIN_PER_TYPE_DEFAULT}}
  /\ IdleLocals

CallBalance ==
  /\ pc = "call"
  /\ inp.fn = "balance_candidate_pool"
  /\ out' = balance_candidate_pool(inp.candidates, inp.target_size, inp.min_per_type)
  /\ heap' = BalanceOnHeap(inp.candidates, inp.target_size, inp.min_per_type)
  /\ pc' = "return"
  /\ UNCHANGED <<inp, warnings, searchVars, retrieveVars, calls, settingsVars, tasks>>

RECURSIVE TotalLen(_)
TotalLen(ls) == IF ls = <<>> THEN 0 ELSE Len(Head(ls)) + TotalLen(Tail(ls))

\* the lists of ranked lists handed to reciprocal_rank_fusion: n lists of at
\* most MaxFuseLen results each, MaxFuseHits results in all
RECURSIVE ResultsLists(_)
ResultsLists(n) ==
  IF n = 0 THEN {<<>>}
  ELSE UNION {{Append(ls, ResultsOf(ps))
                 : ps \in Responses(KnownKinds(ls),
                                    Min(MaxFuseLen, MaxFuseHits - TotalLen(ls)), {"doc"})}
                : ls \in ResultsLists(n - 1)}

RRFKs == {1, RRF_K_DEFAULT}

InitRRF ==
  /\ pc = "call"
  /\ inp \in {[fn |-> "reciprocal_rank_fusion", results_lists |-> ls, k |-> k]
                : ls \in UNION {ResultsLists(n) : n \in 0..MaxLists}, k \in RRFKs}
  /\ IdleLocals

CallRRF ==
  /\ pc = "call"
  /\ inp.fn = "reciprocal_rank_fusion"
  /\ out' = reciprocal_rank_fusion(inp.results_lists, inp.k)
  /\ heap' = FusionOnHeap(inp.results_lists, inp.k)
  /\ pc' = "return"
  /\ UNCHANGED <<inp, warnings, searchVars, retrieveVars, calls, settingsVars, tasks>>

(***************************************************************************)
(* _normalize_query  (retriever.py 32-41)                                   *)
(***************************************************************************)
\* longest query text explored; a text is the sequence of its characters
MaxQueryLen == 5

Alphabet == {"a", "b", " ", "\t"}

\* the characters str.split() separates on
Whitespace == {" ", "\t"}

\* query.split(): the maximal runs of non-whitespace characters, in order.
\* `done` holds the finished words, `word` the one being read.
RECURSIVE SplitFrom(_, _, _)
SplitFrom(done, word, rest) ==
  IF rest = <<>> THEN (IF word = <<>> THEN done ELSE Append(done, word))
  ELSE IF Head(rest) \in Whitespace
         THEN SplitFrom(IF word = <<>> THEN done ELSE Append(done, word), <<>>, Tail(rest))
         ELSE SplitFrom(done, Append(word, Head(rest)), Tail(rest))

\* query.split(" ") instead: separates on each single space, keeps empty words
RECURSIVE SplitOnEachSpace(_, _, _)
SplitOnEachSpace(done, word, rest) ==
  IF rest = <<>> THEN Append(done, word)
  ELSE IF Head(rest) = " "
         THEN SplitOnEachSpace(Append(done, word), <<>>, Tail(rest))
         ELSE SplitOnEachSpace(done, Append(word, Head(rest)), Tail(rest))

SplitEachSpace(query) == SplitOnEachSpace(<<>>, <<>>, query)

Split(query) == SplitFrom(<<>>, <<>>, query)

\* " ".join(words)
RECURSIVE JoinWithSpace(_)
JoinWithSpace(words) ==
  IF words = <<>> THEN <<>>
  ELSE IF Len(words) = 1 THEN words[1]
  ELSE words[1] \o <<" ">> \o JoinWithSpace(Tail(words))

normalize_query(query) == JoinWithSpace(Split(query))

Texts == UNION {[1..n -> Alphabet] : n \in 0..MaxQueryLen}

InitNormalize ==
  /\ pc = "call"
  /\ inp \in {[fn |-> "_normalize_query", query |-> q] : q \in Texts}
  /\ IdleLocals

CallNormalize ==
  /\ pc = "call"
  /\ inp.fn = "_normalize_query"
  /\ out' = normalize_query(inp.query)
  /\ pc' = "return"
  /\ UNCHANGED <<inp, warnings, searchVars, retrieveVars, calls, settingsVars, heap, tasks>>

(***************************************************************************)
(* search_adk  (query_adk.py 255-511)                                       *)
(***************************************************************************)
\* Multi-query runs are explored with first_stage_k = 1 (query_points limit
\* first_stage_k * 2 = 2 points per variant) and at most one extra variant;
\* single-query runs with the default first_stage_k.
\* The `filters` / `filter_spec` dicts explored, as the (key, value) items in
\* insertion order; a value is a scalar, a list, a dict holding one of
\* gte/lte/gt/lt, or a dict holding none of them.  <<>> is None (or {}).
FilterItem(key, value) == [key |-> key, value |-> value]

FilterInputs ==
  {<<>>,
   <<FilterItem("corpus", "scalar"), FilterItem("repo", "list"),
     FilterItem("year", "range_dict"), FilterItem("meta", "other_dict")>>}

SearchInputs ==
  {[fn |-> "search_adk", top_k |-> t, multi_query |-> mq, num_query_variations |-> nv,
    rerank |-> rr, first_stage_k |-> fk, rerank_candidates |-> rc, filters |-> fs]
     : t \in 0..MaxTopK, mq \in BOOLEAN, nv \in {0, 1, NUM_TEMPLATES}, rr \in BOOLEAN,
       fk \in {1, FIRST_STAGE_K_DEFAULT}, rc \in 1..MaxRerankCandidates,
       fs \in FilterInputs}

InitSearch ==
  /\ pc = "sa_expand"
  /\ inp \in {a \in SearchInputs :
                IF a.multi_query
                  THEN a.first_stage_k = 1 /\ a.num_query_variations \in {0, 1}
                  ELSE a.first_stage_k = FIRST_STAGE_K_DEFAULT
                         /\ a.num_query_variations = NUM_TEMPLATES}
  /\ IdleLocals

\* generate_query_variations: [original_query] + templates[:num_variations]
Templates == <<"code-specific", "neutral", "docs-specific">>

generate_query_variations(num_variations) == <<"original">> \o Take(Templates, num_variations)

\* one entry of `calls`: the function called, what the call carried, and the
\* part of it that failed ("none" when the call returned)
Call(fn, arg, failed) == [call |-> fn, arg |-> arg, failed |-> failed]

\* the three query embeddings of one variant, in call order (356-358, retriever 125-136)
Lanes == <<"dense_docs", "dense_code", "sparse">>

EmbedCalls(n) == [i \in 1..n |-> Call("embed", Lanes[i], "none")]

\* the n-th embedding call raises, the ones before it returned
EmbedCallsFailing(n) == EmbedCalls(n - 1) \o <<Call("embed", Lanes[n], Lanes[n])>>

\* an exception leaves the function: nothing in it catches one
Raised(what) == [status |-> "raised", error |-> what]

\* conditions.append(...) for one key of `filters` (321-346): a dict without
\* any of gte/lte/gt/lt adds no condition
BuildConditions(item) ==
  CASE item.value = "scalar"     -> <<[key |-> item.key, cond |-> "match_value"]>>
    [] item.value = "list"       -> <<[key |-> item.key, cond |-> "match_any"]>>
    [] item.value = "range_dict" -> <<[key |-> item.key, cond |-> "range"]>>
    [] OTHER                     -> <<>>

RECURSIVE AllConditions(_)
AllConditions(filters) ==
  IF filters = <<>> THEN <<>>
  ELSE BuildConditions(Head(filters)) \o AllConditions(Tail(filters))

\* query_filter = None; if filters: ...; if conditions: query_filter = Filter(must=conditions)
BuildFilter(filters) ==
  IF filters = <<>> \/ AllConditions(filters) = <<>>
    THEN NoFilter
    ELSE [must |-> AllConditions(filters), none |-> FALSE]

\* prefetch=[Prefetch(..., filter=f), Prefetch(..., filter=f), Prefetch(..., filter=f)]
Prefetch(f) == [lane \in 1..3 |-> f]

\* Stage 1 and the filter (303-348)
SA_Expand ==
  /\ pc = "sa_expand"
  /\ query_variations' = IF inp.multi_query
                           THEN generate_query_variations(inp.num_query_variations)
                           ELSE <<"original">>
  /\ query_filter' = BuildFilter(inp.filters)
  /\ pc' = "sa_embed"
  /\ UNCHANGED <<inp, out, warnings, all_results, candidates, balanced_candidates,
                 final_results, retrieveVars, calls, settingsVars, heap, tasks>>

\* Stage 2, per variant: the three embedding calls (355-358)
SA_Embed ==
  /\ pc = "sa_embed"
  /\ calls' = calls \o EmbedCalls(3)
  /\ pc' = "sa_query"
  /\ UNCHANGED <<inp, out, warnings, searchVars, retrieveVars, settingsVars, heap, tasks>>

\* one of the three embedding calls raises
SA_EmbedRaises ==
  /\ pc = "sa_embed"
  /\ \E n \in 1..3 :
       /\ calls' = calls \o EmbedCallsFailing(n)
       /\ out' = Raised([call |-> "embed", lane |-> Lanes[n]])
  /\ pc' = "sa_raised"
  /\ UNCHANGED <<inp, warnings, searchVars, retrieveVars, settingsVars, heap, tasks>>

\* Stage 2, per variant: qdrant.query_points and the results list (364-408)
SA_QueryPoints ==
  /\ pc = "sa_query"
  /\ \E points \in Responses(KnownKinds(all_results),
                             Min(inp.first_stage_k * 2, MaxPoints), PointKinds) :
       all_results' = Append(all_results, ResultsOf(points))
  /\ calls' = Append(calls, Call("query_points", Prefetch(query_filter), "none"))
  /\ pc' = IF Len(all_results') < Len(query_variations) THEN "sa_embed" ELSE "sa_fuse"
  /\ UNCHANGED <<inp, out, warnings, query_variations, candidates, balanced_candidates,
                 final_results, query_filter, retrieveVars, settingsVars, heap, tasks>>

\* the vector store fails the request (a lane of it, or all of it)
SA_QueryRaises ==
  /\ pc = "sa_query"
  /\ \E lane \in {"dense_docs", "dense_code", "sparse", "all"} :
       /\ calls' = Append(calls, Call("query_points", Prefetch(query_filter), lane))
       /\ out' = Raised([call |-> "query_points", lane |-> lane])
  /\ pc' = "sa_raised"
  /\ UNCHANGED <<inp, warnings, searchVars, retrieveVars, settingsVars, heap, tasks>>

\* Stage 2b (417-423)
SA_Fuse ==
  /\ pc = "sa_fuse"
  /\ IF inp.multi_query /\ Len(all_results) > 1
       THEN /\ candidates' = reciprocal_rank_fusion(all_results, RRF_K_DEFAULT)
            /\ heap' = FusionOnHeap(all_results, RRF_K_DEFAULT)
            /\ calls' = Append(calls, Call("reciprocal_rank_fusion", "all_results", "none"))
       ELSE /\ candidates' = IF all_results # <<>> THEN all_results[1] ELSE <<>>
            /\ UNCHANGED <<calls, heap>>
  /\ pc' = "sa_balance"
  /\ UNCHANGED <<inp, out, warnings, query_variations, all_results, balanced_candidates,
                 final_results, query_filter, retrieveVars, settingsVars, tasks>>

\* Stage 3 (425-437)
SA_Balance ==
  /\ pc = "sa_balance"
  /\ IF Len(candidates) > inp.rerank_candidates
       THEN /\ balanced_candidates' =
                 balance_candidate_pool(candidates, inp.rerank_candidates,
                                        MIN_PER_TYPE_DEFAULT)
            /\ heap' = BalanceOnHeap(candidates, inp.rerank_candidates,
                                     MIN_PER_TYPE_DEFAULT)
            /\ calls' = Append(calls, Call("balance_candidate_pool", "candidates", "none"))
       ELSE /\ balanced_candidates' = candidates
            /\ UNCHANGED <<calls, heap>>
  /\ pc' = "sa_rerank"
  /\ UNCHANGED <<inp, out, warnings, query_variations, all_results, candidates,
                 final_results, query_filter, retrieveVars, settingsVars, tasks>>

\* for result in reranking.results: original = balanced_candidates[result.index].copy() ...
MapReranked(pool, results) ==
  [m \in 1..Len(results) |->
     SetKey(SetKey(pool[results[m].index], "rerank_score", results[m].relevance_score),
            "reranked", TRUE)]

\* if rerank and len(balanced_candidates) > 0 (441)
ShouldRerankAnyPool(rerank, pool) == Len(pool) > 0

ShouldRerank(rerank, pool) == rerank /\ Len(pool) > 0

\* Stage 4 (439-474): voyage.rerank(..., top_k=min(len(documents), rerank_candidates))
SA_Rerank ==
  /\ pc = "sa_rerank"
  /\ ShouldRerank(inp.rerank, balanced_candidates)
  /\ \E results \in RerankResults(balanced_candidates,
                                  Min(Len(balanced_candidates), inp.rerank_candidates)) :
       /\ candidates' = MapReranked(balanced_candidates, results)
       /\ heap' = RerankMappingOnHeap(balanced_candidates, results)
  /\ calls' = Append(calls, Call("rerank", "documents", "none"))
  /\ pc' = "sa_gate"
  /\ UNCHANGED <<inp, out, warnings, query_variations, all_results, balanced_candidates,
                 final_results, query_filter, retrieveVars, settingsVars, tasks>>

\* voyage.rerank raises (error or timeout)
SA_RerankRaises ==
  /\ pc = "sa_rerank"
  /\ ShouldRerank(inp.rerank, balanced_candidates)
  /\ calls' = Append(calls, Call("rerank", "documents", "all"))
  /\ out' = Raised([call |-> "rerank", lane |-> "all"])
  /\ pc' = "sa_raised"
  /\ UNCHANGED <<inp, warnings, searchVars, retrieveVars, settingsVars, heap, tasks>>

SA_SkipRerank ==
  /\ pc = "sa_rerank"
  /\ ~ShouldRerank(inp.rerank, balanced_candidates)
  /\ pc' = "sa_gate"
  /\ UNCHANGED <<inp, out, warnings, searchVars, retrieveVars, calls, settingsVars, heap, tasks>>

\* Stage 5 (476-480)
SA_Gate ==
  /\ pc = "sa_gate"
  /\ LET gated == apply_coverage_gates(candidates, inp.top_k,
                                       MIN_DOCS_DEFAULT, MIN_CODE_DEFAULT)
     IN  /\ final_results' = gated.selected
         /\ warnings' = warnings \o gated.warnings
  /\ heap' = GateOnHeap(candidates, inp.top_k, MIN_DOCS_DEFAULT, MIN_CODE_DEFAULT)
  /\ calls' = Append(calls, Call("apply_coverage_gates", "candidates", "none"))
  /\ pc' = "sa_return"
  /\ UNCHANGED <<inp, out, query_variations, all_results, candidates,
                 balanced_candidates, query_filter, retrieveVars, settingsVars, tasks>>

\* ALL_CORPORA (74-78)
ALL_CORPORA ==
  <<"adk_docs", "adk_python", "agent_dev_docs", "openai_agents_docs",
    "openai_agents_python">>

\* "corpus": point.payload.get("corpus", "") (396).  The corpus of a payload
\* decides nothing before the coverage is counted, so the corpora of the
\* stored points are drawn where they are first read: by kind, from the
\* corpora of ALL_CORPORA, or "" for a payload without the key.
PayloadCorpora ==
  {[doc |-> d, code |-> c] : d \in {"adk_docs", ""}, c \in {"adk_python"}}

WithCorpus(results, corpus_of) ==
  [i \in 1..Len(results) |-> SetKey(results[i], "corpus", corpus_of[results[i]["kind"]])]

\* for corpus_name in ALL_CORPORA: count = sum(...); if count > 0: ... (489-494)
CoverageOf(results) ==
  LET count(corpus_name) ==
        Cardinality({i \in 1..Len(results) : Get(results[i], "corpus", "None") = corpus_name})
      listed == {ALL_CORPORA[n] : n \in 1..Len(ALL_CORPORA)}
  IN  [corpus_name \in {c \in listed : count(c) > 0} |-> count(corpus_name)]

\* the response (496-511)
SA_Return ==
  /\ pc = "sa_return"
  /\ \E corpus_of \in PayloadCorpora :
       \E results \in {WithCorpus(final_results, corpus_of)} :
           out' = [results |-> results, count |-> Len(results),
                   coverage |-> CoverageOf(results),
                   query_variations |-> IF inp.multi_query THEN query_variations
                                                           ELSE <<>>,
                   pipeline |-> [multi_query |-> inp.multi_query,
                                 reranked |-> inp.rerank],
                   warnings |-> warnings]
  /\ pc' = "sa_done"
  /\ UNCHANGED <<inp, warnings, searchVars, retrieveVars, calls, settingsVars, heap, tasks>>

(***************************************************************************)
(* retrieve_adk_evidence  (retriever.py 75-368)                             *)
(***************************************************************************)
\* the query texts explored: one already normalised, one that is not
RetrieveQueries == {<<"a">>, <<"a", " ">>}

InitRetrieve ==
  /\ pc = "ra_embed"
  /\ inp \in {[fn |-> "retrieve_adk_evidence", query |-> q, top_k_final |-> t,
               filter_spec |-> fs]
                : q \in RetrieveQueries, t \in 1..MaxTopK, fs \in FilterInputs}
  /\ IdleLocals

\* 2. the three query vectors (125-141)
RA_Embed ==
  /\ pc = "ra_embed"
  /\ calls' = calls \o EmbedCalls(3)
  /\ pc' = "ra_query"
  /\ UNCHANGED <<inp, out, warnings, searchVars, retrieveVars, settingsVars, heap, tasks>>

\* one of the three embedding calls raises
RA_EmbedRaises ==
  /\ pc = "ra_embed"
  /\ \E n \in 1..3 :
       /\ calls' = calls \o EmbedCallsFailing(n)
       /\ out' = Raised([call |-> "embed", lane |-> Lanes[n]])
  /\ pc' = "ra_raised"
  /\ UNCHANGED <<inp, warnings, searchVars, retrieveVars, settingsVars, heap, tasks>>

\* q_filter = None; if filter_spec: pass (148-155)
RetrieverFilter(filter_spec) == NoFilter

\* payload.get("start_line") of a stored point: None, or a line number
NoLine == -1

StartLines == {NoLine, 0, 7}

\* the points of one response, all chunks starting at the same line
WithStartLine(points, start_line) ==
  [i \in 1..Len(points) |->
     [id |-> points[i].id, kind |-> points[i].kind, start_line |-> start_line]]

\* 4. for point in search_result.points: if c_id not in candidates_by_id: ... (190-200)
RECURSIVE DedupPoints(_, _)
DedupPoints(kept, points) ==
  IF points = <<>> THEN kept
  ELSE DedupPoints(IF \E j \in 1..Len(kept) : kept[j].id = Head(points).id
                     THEN kept ELSE Append(kept, Head(points)),
                   Tail(points))

\* 3./4. qdrant.client.query_points and candidate normalisation (180-200)
RA_QueryPoints ==
  /\ pc = "ra_query"
  /\ \E points \in Responses(<<>>, MaxPoints, PointKinds), start_line \in StartLines :
       candidates_list' = DedupPoints(<<>>, WithStartLine(points, start_line))
  /\ calls' = Append(calls, Call("query_points",
                                 Prefetch(RetrieverFilter(inp.filter_spec)), "none"))
  /\ pc' = "ra_rerank"
  /\ UNCHANGED <<inp, out, warnings, searchVars, scored_candidates, final_evidence,
                 settingsVars, heap, tasks>>

\* the vector store fails the request (a lane of it, or all of it)
RA_QueryRaises ==
  /\ pc = "ra_query"
  /\ \E lane \in {"dense_docs", "dense_code", "sparse", "all"} :
       /\ calls' = Append(calls, Call("query_points",
                                      Prefetch(RetrieverFilter(inp.filter_spec)), lane))
       /\ out' = Raised([call |-> "query_points", lane |-> lane])
  /\ pc' = "ra_raised"
  /\ UNCHANGED <<inp, warnings, searchVars, retrieveVars, settingsVars, heap, tasks>>

\* if not candidates_list: return {...} (203-210)
RA_NoResults ==
  /\ pc = "ra_rerank"
  /\ candidates_list = <<>>
  /\ LET clean_query == normalize_query(inp.query)
     IN  out' = [status |-> "no_results", query |-> clean_query, evidence |-> <<>>,
                 coverage |-> <<>>, warnings |-> <<"No candidates found from Qdrant">>]
  /\ pc' = "ra_done"
  /\ UNCHANGED <<inp, warnings, searchVars, retrieveVars, calls, settingsVars, heap, tasks>>

\* 5. voyage_client.rerank(..., top_k=top_k_final * 2) and scored_candidates (226-244)
RA_Rerank ==
  /\ pc = "ra_rerank"
  /\ candidates_list # <<>>
  /\ \E rerank_results \in RerankResults(candidates_list, inp.top_k_final * 2) :
       scored_candidates' =
         [m \in 1..Len(rerank_results) |->
            [point |-> candidates_list[rerank_results[m].index],
             rerank_score |-> rerank_results[m].relevance_score,
             rerank_rank |-> 0]]
  /\ calls' = Append(calls, Call("rerank", "rerank_docs", "none"))
  /\ pc' = "ra_select"
  /\ UNCHANGED <<inp, out, warnings, searchVars, candidates_list, final_evidence,
                 settingsVars, heap, tasks>>

\* voyage_client.rerank raises (error or timeout)
RA_RerankRaises ==
  /\ pc = "ra_rerank"
  /\ candidates_list # <<>>
  /\ calls' = Append(calls, Call("rerank", "rerank_docs", "all"))
  /\ out' = Raised([call |-> "rerank", lane |-> "all"])
  /\ pc' = "ra_raised"
  /\ UNCHANGED <<inp, warnings, searchVars, retrieveVars, settingsVars, heap, tasks>>

ScoredOfKind(scored, kind) == SelectSeq(scored, LAMBDA c : c.point.kind = kind)

PointIds(scored) == {scored[i].point.id : i \in 1..Len(scored)}

\* for i in range(take_code): if code_candidates[i]["point"].id not in selected_indices: ...
RECURSIVE ForceCode(_, _)
ForceCode(sel, items) ==
  IF items = <<>> THEN sel
  ELSE LET c == Head(items)
       IN  IF c.point.id \in PointIds(sel.evidence)
             THEN ForceCode(sel, Tail(items))
             ELSE ForceCode([sel EXCEPT !.evidence = Append(@, c), !.code_count = @ + 1],
                            Tail(items))

\* for cand in scored_candidates: if remaining_slots <= 0: break ... (288-298)
RECURSIVE FillSlots(_, _, _)
FillSlots(sel, scored, remaining_slots) ==
  IF scored = <<>> \/ remaining_slots <= 0 THEN sel
  ELSE LET cand == Head(scored)
       IN  IF cand.point.id \in PointIds(sel.evidence)
             THEN FillSlots(sel, Tail(scored), remaining_slots)
             ELSE FillSlots(
                    IF cand.point.kind = "doc"
                      THEN [sel EXCEPT !.evidence = Append(@, cand), !.docs_count = @ + 1]
                      ELSE [sel EXCEPT !.evidence = Append(@, cand), !.code_count = @ + 1],
                    Tail(scored), remaining_slots - 1)

\* final_evidence.sort(key=lambda x: x["rerank_score"], reverse=True) (301)
SortEvidenceKeepOrder(evidence) == evidence

SortEvidence(evidence) ==
  SortDesc(evidence, [i \in 1..Len(evidence) |-> evidence[i].rerank_score])

\* for i, item in enumerate(final_evidence): item["rerank_rank"] = i + 1 (304-305)
AssignRanks(evidence) ==
  [i \in 1..Len(evidence) |-> [evidence[i] EXCEPT !.rerank_rank = i]]

\* 6. the selection logic (246-305): final_evidence with ranks, and the counters
SelectEvidence(scored, top_k_final) ==
  LET doc_candidates  == ScoredOfKind(scored, "doc")
      code_candidates == ScoredOfKind(scored, "code")
      take_docs == Min(Len(doc_candidates), MIN_EACH)
      take_code == Min(Len(code_candidates), MIN_EACH)
      docs   == [evidence |-> Take(doc_candidates, take_docs),
                 docs_count |-> take_docs, code_count |-> 0]
      forced == ForceCode(docs, Take(code_candidates, take_code))
      filled == FillSlots(forced, scored, top_k_final - Len(forced.evidence))
  IN  [filled EXCEPT !.evidence = AssignRanks(SortEvidence(filled.evidence))]

\* if payload.get("start_line"): None and 0 are both false
HasStartLineNotNone(start_line) == start_line # NoLine

HasStartLine(start_line) == start_line # NoLine /\ start_line # 0

\* the citation of one evidence item (320-330)
Citation(payload) ==
  IF payload.kind = "doc"
    THEN [prefix |-> "adk-docs", form |-> "chunk_id", start |-> NoLine]
    ELSE IF HasStartLine(payload.start_line)
           THEN [prefix |-> "adk-python", form |-> "line_range",
                 start |-> payload.start_line]
           ELSE [prefix |-> "adk-python", form |-> "chunk_id", start |-> NoLine]

\* 6./7. selection, warnings and the evidence pack (246-368)
RA_Select ==
  /\ pc = "ra_select"
  /\ \E sel \in {SelectEvidence(scored_candidates, inp.top_k_final)} :
     LET ws  == IF sel.docs_count < MIN_EACH \/ sel.code_count < MIN_EACH
                  THEN <<[warning |-> "Coverage gate failed", docs |-> sel.docs_count,
                          code |-> sel.code_count, wanted |-> MIN_EACH]>>
                  ELSE <<>>
     IN  /\ final_evidence' = sel.evidence
         /\ warnings' = ws
         /\ out' = [query |-> inp.query,
                    evidence |-> [i \in 1..Len(sel.evidence) |->
                                    [rank |-> sel.evidence[i].rerank_rank,
                                     rerank_score |-> sel.evidence[i].rerank_score,
                                     citation |-> Citation(sel.evidence[i].point)]],
                    coverage |-> [adk_docs |-> sel.docs_count,
                                  adk_python |-> sel.code_count],
                    warnings |-> ws]
  /\ pc' = "ra_done"
  /\ UNCHANGED <<inp, searchVars, candidates_list, scored_candidates, calls, settingsVars,
                 heap, tasks>>

(***************************************************************************)
(* rag_search and rag_search_quick  (server.py 155-395)                     *)
(***************************************************************************)
\* results in one answer of the underlying search
MaxRawResults == 2

\* RETRIEVAL_PRESETS (42-73)
PresetNames == {"balanced", "precision", "recall", "speed"}

RETRIEVAL_PRESETS ==
  [p \in PresetNames |->
     CASE p = "balanced"  -> [first_stage_k |-> 80, rerank_candidates |-> 60,
                              rerank |-> TRUE, expand_context |-> TRUE]
       [] p = "precision" -> [first_stage_k |-> 100, rerank_candidates |-> 80,
                              rerank |-> TRUE, score_threshold |-> "0.3",
                              expand_context |-> TRUE]
       [] p = "recall"    -> [first_stage_k |-> 120, rerank_candidates |-> 100,
                              rerank |-> TRUE, fusion_method |-> "rrf",
                              expand_context |-> TRUE]
       [] p = "speed"     -> [first_stage_k |-> 60, rerank_candidates |-> 40,
                              rerank |-> FALSE, expand_context |-> FALSE]]

\* speed_params of rag_search_quick (332-337)
SPEED_PARAMS ==
  [rerank |-> FALSE, expand_context |-> FALSE, first_stage_k |-> 60,
   rerank_candidates |-> 40]

\* the keys of CORPUS_GROUPS, as the sdk parameter documents them (158-161)
SdkNames == {"adk", "openai", "langchain", "langgraph", "anthropic", "crewai"}

\* valid_modes (210)
ValidModes == {"build", "debug", "explain", "refactor"}

\* top_k defaults of rag_search (174) and rag_search_quick (306)
RAG_TOP_K_DEFAULT == 12
QUICK_TOP_K_DEFAULT == 20

\* The arguments explored.  "None" is None; an empty corpus list is None.
\* top_k is handed to the search as given: it stays at its default.
RagSearchInputs ==
  {[fn |-> "rag_search", preset |-> p, sdk |-> sd, mode |-> m, corpus |-> c,
    kind |-> kd, expand_context |-> ec, verbose |-> v, top_k |-> RAG_TOP_K_DEFAULT]
     : p \in {"balanced", "speed", "turbo"}, sd \in {"None", "adk", "nosuch"},
       m \in {"build", "guess"}, c \in {<<>>, <<"adk_docs">>},
       kd \in {"None", "doc"}, ec \in BOOLEAN, v \in BOOLEAN}

RagSearchQuickInputs ==
  {[fn |-> "rag_search_quick", sdk |-> sd, corpus |-> c, kind |-> kd,
    top_k |-> QUICK_TOP_K_DEFAULT]
     : sd \in {"None", "adk", "nosuch"}, c \in {<<>>, <<"adk_docs">>, <<"a", "b">>},
       kd \in {"None", "doc", "image"}}

InitRagSearch ==
  /\ pc = "rs_validate"
  /\ inp \in RagSearchInputs \cup RagSearchQuickInputs
  /\ IdleLocals

\* the validated selectors (198-213, 321-325)
ValidPreset(preset) == IF preset \in PresetNames THEN preset ELSE "balanced"

ValidSdk(sdk) == IF sdk # "None" /\ sdk \notin SdkNames THEN "None" ELSE sdk

\* the mode handed on as given, after the warning
ValidModeAsGiven(mode) == mode

ValidMode(mode) == IF mode \in ValidModes THEN mode ELSE "build"

\* the warnings of the validation, in the order the checks are made
ValidationWarnings(args) ==
  (IF "preset" \in DOMAIN args /\ args.preset \notin PresetNames
     THEN <<"Unknown preset">> ELSE <<>>)
  \o (IF args.sdk # "None" /\ args.sdk \notin SdkNames THEN <<"Unknown SDK">> ELSE <<>>)
  \o (IF "mode" \in DOMAIN args /\ args.mode \notin ValidModes
        THEN <<"Unknown mode">> ELSE <<>>)

\* _build_corpus_filter(sdk, corpus, kind) (116-147); <<>> is None
build_corpus_filter(sdk, corpus, kind) ==
  (IF sdk # "None" /\ sdk \in SdkNames
     THEN <<[key |-> "corpus", value |-> <<"CORPUS_GROUPS", sdk>>]>>
     ELSE IF corpus # <<>>
            THEN IF Len(corpus) = 1
                   THEN <<[key |-> "corpus", value |-> <<"scalar", corpus[1]>>]>>
                   ELSE <<[key |-> "corpus", value |-> <<"list">> \o corpus]>>
            ELSE <<>>)
  \o (IF kind \in {"doc", "code"} THEN <<[key |-> "kind", value |-> <<"scalar", kind>>]>>
                                  ELSE <<>>)

\* the keyword arguments grounding_search is called with (229-236, 344-351):
\* those written out in the call ...
FixedKwargs(args) ==
  LET filters == build_corpus_filter(ValidSdk(args.sdk), args.corpus, args.kind)
  IN  IF args.fn = "rag_search"
        THEN [top_k |-> args.top_k, mode |-> ValidMode(args.mode), filters |-> filters,
              verbose |-> args.verbose]
        ELSE [top_k |-> args.top_k, mode |-> "build", filters |-> filters,
              verbose |-> FALSE]

\* ... and **preset_params / **speed_params
SearchKwargs(args) ==
  FixedKwargs(args)
    @@ (IF args.fn = "rag_search"
          THEN SetKey(RETRIEVAL_PRESETS[ValidPreset(args.preset)],
                      "expand_context", args.expand_context)
          ELSE SPEED_PARAMS)

\* what grounding_search may return: at most MaxRawResults results, raw or
\* reranked, with or without a warning of its own
RawResults ==
  {[results  |-> [i \in 1..m |-> CandidateOf(i, m, ks[i], profile)],
    coverage |-> IF m = 0 THEN <<>> ELSE <<"adk_docs">>,
    warnings |-> ws]
     : m \in 0..MaxRawResults, ks \in [1..MaxRawResults -> PointKinds],
       profile \in {"raw", "reranked"}, ws \in {<<>>, <<"Coverage gate">>}}

\* the exceptions it may raise
ErrorTypes == {"ConnectionError", "TimeoutError"}

\* _transform_result_to_evidence (76-113): rerank_score, else rrf_score, else score
transform_result_to_evidence(result) ==
  [id |-> result["id"], kind |-> Get(result, "kind", ""),
   is_expanded |-> "expanded_from" \in DOMAIN result,
   score |-> IF "rerank_score" \in DOMAIN result THEN result["rerank_score"]
             ELSE IF "rrf_score" \in DOMAIN result THEN result["rrf_score"]
             ELSE Get(result, "score", 0)]

\* the response of the success path (239-272, 354-379)
SearchResponse(args, validation_warnings, raw_result) ==
  LET evidence == [i \in 1..Len(raw_result.results) |->
                     transform_result_to_evidence(raw_result.results[i])]
      response == [count |-> Len(evidence), evidence |-> evidence,
                   coverage |-> [doc_count |-> CountKind(evidence, "doc"),
                                 code_count |-> CountKind(evidence, "code"),
                                 corpora |-> raw_result.coverage],
                   warnings |-> validation_warnings \o raw_result.warnings]
  IN  IF args.fn = "rag_search" /\ args.verbose
        THEN SetKey(response, "pipeline", "raw_result.pipeline")
        ELSE response

\* the response of `except Exception as e` (274-288, 381-395)
ErrorResponseLosingWarnings(validation_warnings, e) ==
  [count |-> 0, evidence |-> <<>>,
   coverage |-> [doc_count |-> 0, code_count |-> 0, corpora |-> <<>>],
   error |-> e, error_type |-> e, warnings |-> <<"Search failed">>]

ErrorResponse(validation_warnings, e) ==
  [count |-> 0, evidence |-> <<>>,
   coverage |-> [doc_count |-> 0, code_count |-> 0, corpora |-> <<>>],
   error |-> e, error_type |-> e, warnings |-> validation_warnings \o <<"Search failed">>]

\* the validation and the parameters (196-222, 319-337)
RS_Validate ==
  /\ pc = "rs_validate"
  /\ warnings' = ValidationWarnings(inp)
  /\ pc' = "rs_search"
  /\ UNCHANGED <<inp, out, searchVars, retrieveVars, calls, settingsVars, heap, tasks>>

\* grounding_search returns (224-272, 339-379)
RS_SearchReturns ==
  /\ pc = "rs_search"
  /\ \E raw_result \in RawResults :
       out' = SearchResponse(inp, warnings, raw_result)
  /\ calls' = Append(calls, Call("grounding_search", SearchKwargs(inp), "none"))
  /\ pc' = "rs_done"
  /\ UNCHANGED <<inp, warnings, searchVars, retrieveVars, settingsVars, heap, tasks>>

\* grounding_search raises (274-288, 381-395)
RS_SearchRaises ==
  /\ pc = "rs_search"
  /\ \E e \in ErrorTypes : out' = ErrorResponse(warnings, e)
  /\ calls' = Append(calls, Call("grounding_search", SearchKwargs(inp), "all"))
  /\ pc' = "rs_done"
  /\ UNCHANGED <<inp, warnings, searchVars, retrieveVars, settingsVars, heap, tasks>>

(***************************************************************************)
(* get_settings  (config.py 120-149)                                        *)
(***************************************************************************)
\* calls of get_settings in one run of the process
MaxSettingsCalls == 3

\* @lru_cache(maxsize=1)
LRU_MAXSIZE == 1

\* the (env_file, config_file) arguments explored; "None" is the default
SettingsArgs ==
  {[env_file |-> e, config_file |-> c]
     : e \in {"None", "alt.env"}, c \in {"None", "alt.yaml"}}

InitSettings ==
  /\ pc = "gs_call"
  /\ inp = [fn |-> "get_settings"]
  /\ IdleLocals

\* positions of the cache entries made for `args`
CachedAt(args) == {i \in 1..Len(settings_cache) : settings_cache[i].args = args}

\* the cache after a miss: the new entry is the most recent; the least
\* recently used entries beyond `maxsize` are dropped
Evict(cache, maxsize) ==
  IF Len(cache) > maxsize THEN SubSeq(cache, Len(cache) - maxsize + 1, Len(cache))
                          ELSE cache

\* a call whose arguments are in the cache: the cached instance is returned
\* and its entry becomes the most recently used
GS_Hit ==
  /\ pc = "gs_call"
  /\ Len(settings_returned) < MaxSettingsCalls
  /\ \E args \in SettingsArgs :
       /\ CachedAt(args) # {}
       /\ LET i == CHOOSE i \in CachedAt(args) : TRUE
              entry == settings_cache[i]
          IN  /\ settings_cache' =
                   Append(SelectSeq(settings_cache, LAMBDA x : x.args # args), entry)
              /\ settings_returned' =
                   Append(settings_returned,
                          [args |-> args, instance |-> entry.instance, loaded |-> FALSE])
  /\ UNCHANGED <<pc, inp, out, warnings, calls, searchVars, retrieveVars, settings_loads,
                 heap, tasks>>

\* a call whose arguments are not in the cache: load_dotenv, load_yaml_config
\* and a new Settings(**config_dict), which the cache then holds
GS_Miss ==
  /\ pc = "gs_call"
  /\ Len(settings_returned) < MaxSettingsCalls
  /\ \E args \in SettingsArgs :
       /\ CachedAt(args) = {}
       /\ settings_loads' = settings_loads + 1
       /\ settings_cache' =
            Evict(Append(settings_cache, [args |-> args, instance |-> settings_loads']),
                  LRU_MAXSIZE)
       /\ settings_returned' =
            Append(settings_returned,
                   [args |-> args, instance |-> settings_loads', loaded |-> TRUE])
  /\ UNCHANGED <<pc, inp, out, warnings, calls, searchVars, retrieveVars, heap, tasks>>

(***************************************************************************)
(* Calls of rag_search / rag_search_quick served by one process             *)
(* (server.py 155-395).  A call's coroutine runs on the event loop up to    *)
(* its await and again after it, never interleaved with the coroutine of    *)
(* another call; the lambda it hands to run_in_executor runs in a thread of *)
(* the pool, concurrently with everything else.  The calls share the        *)
(* module-level RETRIEVAL_PRESETS dicts (kept in the heap) and the          *)
(* lru_cache of get_settings.                                               *)
(***************************************************************************)
Calls == {1, 2}

\* the module-level preset dicts, at the addresses the process gave them
PresetOrder == <<"balanced", "precision", "recall", "speed">>

PresetHeap ==
  [dicts |-> [n \in 1..Len(PresetOrder) |-> RETRIEVAL_PRESETS[PresetOrder[n]]],
   lists |-> <<>>]

PresetAddress(preset) == CHOOSE n \in 1..Len(PresetOrder) : PresetOrder[n] = preset

\* preset_params = RETRIEVAL_PRESETS[preset].copy() (219)
CopyPresetAliased(h, preset) == [heap |-> h, addr |-> PresetAddress(preset)]

CopyPreset(h, preset) == DictCopy(h, PresetAddress(preset))

\* speed_params = {...}: a dict literal is a new dict (332-337)
NewDict(h, d) == [heap |-> [h EXCEPT !.dicts = Append(@, d)], addr |-> Len(h.dicts) + 1]

\* the arguments of the concurrent calls: rag_search with its presets and
\* either expand_context, rag_search_quick with a known or unknown sdk
ConcurrentInputs ==
  {a \in RagSearchInputs :
     /\ a.sdk = "None" /\ a.mode = "build" /\ a.corpus = <<>> /\ a.kind = "None"
     /\ ~a.verbose}
  \cup {a \in RagSearchQuickInputs :
          a.sdk \in {"None", "nosuch"} /\ a.corpus = <<>> /\ a.kind = "None"}

\* what the external services answer to the search of call c: an error, no
\* point with a warning of the pipeline, or a point of its own with an
\* adjacent chunk
AnswerKinds == {"raises", "empty", "found"}

Answer(c, answer_kind) ==
  CASE answer_kind = "raises" ->
         [raises |-> "TimeoutError", points |-> <<>>, adjacent |-> <<>>,
          warnings |-> <<>>]
    [] answer_kind = "empty" ->
         [raises |-> "None", points |-> <<>>, adjacent |-> <<>>,
          warnings |-> <<"Coverage gate">>]
    [] answer_kind = "found" ->
         [raises |-> "None",
          points |-> <<[id |-> c, kind |-> "doc", score |-> 2, reranked |-> FALSE]>>,
          adjacent |-> <<[id |-> c + Cardinality(Calls), kind |-> "doc", score |-> 1,
                          reranked |-> FALSE, expanded_from |-> c]>>,
          warnings |-> <<>>]

\* the underlying search, given its keyword arguments and the answers of the
\* external services: reranking scores the points, context expansion adds
\* the adjacent chunks
grounding_search(kwargs, answer) ==
  LET found == IF kwargs.rerank
                 THEN [i \in 1..Len(answer.points) |->
                         SetKey(SetKey(answer.points[i], "rerank_score",
                                       answer.points[i]["score"]), "reranked", TRUE)]
                 ELSE answer.points
      results == IF kwargs.expand_context THEN found \o answer.adjacent ELSE found
  IN  [results  |-> results,
       coverage |-> IF results = <<>> THEN <<>> ELSE <<"adk_docs">>,
       warnings |-> answer.warnings]

NewTask(args, answer) ==
  [pc |-> "start", args |-> args, answer |-> answer, warnings |-> <<>>, params |-> 0,
   kwargs |-> <<>>, settings |-> 0, raw |-> <<>>, out |-> NoValue]

InitConcurrent ==
  /\ pc = "serving"
  /\ inp = [fn |-> "rag_server"]
  /\ IdlePipeline
  /\ heap = PresetHeap
  /\ tasks \in {[c \in Calls |-> NewTask(as[c], Answer(c, ks[c]))]
                  : as \in [Calls -> ConcurrentInputs], ks \in [Calls -> AnswerKinds]}

pipelineVars == <<pc, inp, out, warnings, calls, searchVars, retrieveVars>>

\* the coroutine up to the await (196-227, 319-342): validation, filters,
\* the preset parameters, and the lambda handed to the executor
RC_Start(c) ==
  /\ tasks[c].pc = "start"
  /\ LET args == tasks[c].args
     IN  \E made \in {IF args.fn = "rag_search"
                       THEN LET preset_params == CopyPreset(heap, ValidPreset(args.preset))
                            IN  [heap |-> DictSet(preset_params.heap, preset_params.addr,
                                                  "expand_context", args.expand_context),
                                 addr |-> preset_params.addr]
                       ELSE NewDict(heap, SPEED_PARAMS)} :
           /\ heap' = made.heap
           /\ tasks' = [tasks EXCEPT ![c].pc = "submitted",
                                     ![c].warnings = ValidationWarnings(args),
                                     ![c].params = made.addr]
  /\ UNCHANGED <<pipelineVars, settingsVars>>

\* a pool thread runs the lambda: grounding_search(..., **preset_params) reads
\* the dict now (228-237, 343-352)
RC_Run(c) ==
  /\ tasks[c].pc = "submitted"
  /\ tasks' = [tasks EXCEPT ![c].pc = "get_settings",
                            ![c].kwargs = FixedKwargs(tasks[c].args)
                                            @@ heap.dicts[tasks[c].params]]
  /\ UNCHANGED <<pipelineVars, settingsVars, heap>>

\* get_settings() with default arguments, as the search calls it
DefaultSettingsArgs == [env_file |-> "None", config_file |-> "None"]

\* the lru_cache holds the instance: a hit
RC_SettingsHit(c) ==
  /\ tasks[c].pc = "get_settings"
  /\ CachedAt(DefaultSettingsArgs) # {}
  /\ LET i == CHOOSE i \in CachedAt(DefaultSettingsArgs) : TRUE
     IN  tasks' = [tasks EXCEPT ![c].pc = "search",
                                ![c].settings = settings_cache[i].instance]
  /\ UNCHANGED <<pipelineVars, settingsVars, heap>>

\* a miss: the cache lets go of its lock while get_settings' body runs
RC_SettingsMiss(c) ==
  /\ tasks[c].pc = "get_settings"
  /\ CachedAt(DefaultSettingsArgs) = {}
  /\ tasks' = [tasks EXCEPT ![c].pc = "loading"]
  /\ UNCHANGED <<pipelineVars, settingsVars, heap>>

\* the body returns a new Settings; the cache stores it unless another
\* thread stored one for the same arguments meanwhile
RC_SettingsLoaded(c) ==
  /\ tasks[c].pc = "loading"
  /\ settings_loads' = settings_loads + 1
  /\ settings_cache' =
       IF CachedAt(DefaultSettingsArgs) # {} THEN settings_cache
       ELSE Evict(Append(settings_cache,
                         [args |-> DefaultSettingsArgs, instance |-> settings_loads']),
                  LRU_MAXSIZE)
  /\ tasks' = [tasks EXCEPT ![c].pc = "search", ![c].settings = settings_loads']
  /\ UNCHANGED <<pipelineVars, settings_returned, heap>>

\* the search returns its result to the pool thread
RC_SearchReturns(c) ==
  /\ tasks[c].pc = "search"
  /\ tasks[c].answer.raises = "None"
  /\ tasks' = [tasks EXCEPT ![c].pc = "answered",
                            ![c].raw = grounding_search(tasks[c].kwargs, tasks[c].answer)]
  /\ UNCHANGED <<pipelineVars, settingsVars, heap>>

\* the search raises in the pool thread
RC_SearchRaises(c) ==
  /\ tasks[c].pc = "search"
  /\ tasks[c].answer.raises # "None"
  /\ tasks' = [tasks EXCEPT ![c].pc = "answered",
                            ![c].raw = [raised |-> tasks[c].answer.raises]]
  /\ UNCHANGED <<pipelineVars, settingsVars, heap>>

\* the coroutine after the await (239-288, 354-395): the response
RC_Respond(c) ==
  /\ tasks[c].pc = "answered"
  /\ tasks' = [tasks EXCEPT
       ![c].pc = "done",
       ![c].out = IF "raised" \in DOMAIN tasks[c].raw
                    THEN ErrorResponse(tasks[c].warnings, tasks[c].raw.raised)
                    ELSE SearchResponse(tasks[c].args, tasks[c].warnings, tasks[c].raw)]
  /\ UNCHANGED <<pipelineVars, settingsVars, heap>>

(***************************************************************************)
(* Specifications.                                                          *)
(***************************************************************************)
Init ==
  \/ InitGate \/ InitBalance \/ InitRRF \/ InitNormalize
  \/ InitSearch \/ InitRetrieve \/ InitRagSearch \/ InitSettings

Next ==
  \/ CallGate
  \/ CallBalance
  \/ CallRRF
  \/ CallNormalize
  \/ SA_Expand
  \/ SA_Embed
  \/ SA_EmbedRaises
  \/ SA_QueryPoints
  \/ SA_QueryRaises
  \/ SA_Fuse
  \/ SA_Balance
  \/ SA_Rerank
  \/ SA_RerankRaises
  \/ SA_SkipRerank
  \/ SA_Gate
  \/ SA_Return
  \/ RA_Embed
  \/ RA_EmbedRaises
  \/ RA_QueryPoints
  \/ RA_QueryRaises
  \/ RA_NoResults
  \/ RA_Rerank
  \/ RA_RerankRaises
  \/ RA_Select
  \/ RS_Validate
  \/ RS_SearchReturns
  \/ RS_SearchRaises
  \/ GS_Hit
  \/ GS_Miss

Spec == Init /\ [][Next]_vars

\* the server process with its calls in flight
NextConcurrent ==
  \E c \in Calls :
    \/ RC_Start(c)
    \/ RC_Run(c)
    \/ RC_SettingsHit(c)
    \/ RC_SettingsMiss(c)
    \/ RC_SettingsLoaded(c)
    \/ RC_SearchReturns(c)
    \/ RC_SearchRaises(c)
    \/ RC_Respond(c)

SpecConcurrent == InitConcurrent /\ [][NextConcurrent]_vars

(***************************************************************************)
(* Shared vocabulary of the properties.                                     *)
(***************************************************************************)
Returned(fn) == pc = "return" /\ inp.fn = fn

NoDuplicateIds(seq) ==
  \A i, j \in 1..Len(seq) : i # j => seq[i]["id"] # seq[j]["id"]

\* kinds of the final evidence of retrieve_adk_evidence
EvidenceOfKind(kind) == Len(ScoredOfKind(final_evidence, kind))

(***************************************************************************)
(* C1.  The selection of apply_coverage_gates holds at least                *)
(* min(min_docs, doc candidates in the input) doc items and at least        *)
(* min(min_code, code candidates in the input) code items, for every top_k, *)
(* also one below min_docs + min_code; the selection of                     *)
(* retrieve_adk_evidence holds at least min(3, .) of each kind of its       *)
(* reranked list.                                                           *)
(***************************************************************************)
C1_CoverageFloor ==
  /\ Returned("apply_coverage_gates") =>
       /\ CountKind(out.selected, "doc")
            >= Min(inp.min_docs, CountKind(inp.candidates, "doc"))
       /\ CountKind(out.selected, "code")
            >= Min(inp.min_code, CountKind(inp.candidates, "code"))
  /\ pc = "ra_done" =>
       /\ EvidenceOfKind("doc") >= Min(3, Len(ScoredOfKind(scored_candidates, "doc")))
       /\ EvidenceOfKind("code") >= Min(3, Len(ScoredOfKind(scored_candidates, "code")))

\* a call whose top_k is below the forced minimum, with enough of each kind
C1_Witness ==
  /\ Returned("apply_coverage_gates")
  /\ inp.min_docs > 0 /\ inp.min_code > 0
  /\ inp.top_k < inp.min_docs + inp.min_code
  /\ CountKind(inp.candidates, "doc") > inp.min_docs
  /\ CountKind(inp.candidates, "code") >= inp.min_code
  /\ CountKind(out.selected, "doc") = inp.min_docs

(***************************************************************************)
(* C2.  End to end: when the vector-store response holds at least 3 doc and *)
(* at least 3 code candidates and reranking succeeds, the final results of  *)
(* search_adk and the evidence of retrieve_adk_evidence hold at least 3     *)
(* items of each kind, for every rerank_candidates, top_k and top_k_final.  *)
(***************************************************************************)
\* the candidates the vector store returned to the search_adk run
Retrieved(kind) ==
  Cardinality({c \in UNION {{all_results[l][i] : i \in 1..Len(all_results[l])}
                              : l \in 1..Len(all_results)} : c["kind"] = kind})

C2_RetrievedKindsSurvive ==
  /\ (/\ pc = "sa_done"
      /\ inp.rerank
      /\ Retrieved("doc") >= 3
      /\ Retrieved("code") >= 3)
       => /\ CountKind(out.results, "doc") >= 3
          /\ CountKind(out.results, "code") >= 3
  /\ (/\ pc = "ra_done"
      /\ Len(SelectSeq(candidates_list, LAMBDA p : p.kind = "doc")) >= 3
      /\ Len(SelectSeq(candidates_list, LAMBDA p : p.kind = "code")) >= 3)
       => /\ EvidenceOfKind("doc") >= 3
          /\ EvidenceOfKind("code") >= 3

(***************************************************************************)
(* C3.  apply_coverage_gates always returns a selection and at most one     *)
(* warning: exactly one when the final selection holds fewer than min_docs  *)
(* doc items or fewer than min_code code items, none otherwise; and, ids    *)
(* being distinct, a warning is returned if and only if the input itself    *)
(* holds fewer than min_docs doc or fewer than min_code code candidates.    *)
(* A shortfall never empties the selection: it still holds every candidate  *)
(* the floor and top_k admit.                                               *)
(***************************************************************************)
C3_WarningIffShortfall ==
  Returned("apply_coverage_gates") =>
    LET final_short == \/ CountKind(out.selected, "doc") < inp.min_docs
                       \/ CountKind(out.selected, "code") < inp.min_code
        input_short == \/ CountKind(inp.candidates, "doc") < inp.min_docs
                       \/ CountKind(inp.candidates, "code") < inp.min_code
    IN  /\ Len(out.warnings) = (IF final_short THEN 1 ELSE 0)
        /\ (Len(out.warnings) = 1) <=> input_short
        /\ Len(out.selected) >= Min(inp.top_k, Len(inp.candidates))
        /\ IdsOf(out.selected) \subseteq IdsOf(inp.candidates)

\* one kind is short, the other is not: a warning and a non-empty selection
C3_Witness ==
  /\ Returned("apply_coverage_gates")
  /\ CountKind(inp.candidates, "doc") >= inp.min_docs
  /\ CountKind(inp.candidates, "code") < inp.min_code
  /\ CountKind(inp.candidates, "code") > 0
  /\ Len(out.warnings) = 1
  /\ Len(out.selected) > 0

(***************************************************************************)
(* C4.  The final results of search_adk are in non-increasing order of the  *)
(* effective score: the rerank score if the item has one, else its fused    *)
(* score (the RRF score in multi-query mode, the vector-store fusion score  *)
(* in single-query mode), for every combination of multi_query and rerank.  *)
(***************************************************************************)
EffectiveScore(c) == Get(c, "rerank_score", Get(c, "rrf_score", c["score"]))

C4_ResultsByEffectiveScore ==
  pc = "sa_done" =>
    \A i, j \in 1..Len(out.results) :
      i < j => EffectiveScore(out.results[i]) >= EffectiveScore(out.results[j])

(***************************************************************************)
(* C5.  The final selection never holds more than the requested number of   *)
(* results: apply_coverage_gates returns at most top_k items (top_k >= 0)   *)
(* and retrieve_adk_evidence at most top_k_final evidence items.            *)
(***************************************************************************)
C5_AtMostTopK ==
  /\ Returned("apply_coverage_gates") => Len(out.selected) <= inp.top_k
  /\ pc = "ra_done" => Len(out.evidence) <= inp.top_k_final

(***************************************************************************)
(* C6.  reciprocal_rank_fusion gives each output candidate d the score      *)
(* sum over the input lists of 1/(k + r), r the 1-based position of d in    *)
(* the list, 0 for a list without d; search_adk fuses with the default      *)
(* k = 60.  Every input id is in the output.                                *)
(***************************************************************************)
\* 1/(k + r) over ScoreDen(k) for the list's position r of id, 0 if absent
PositionsOf(list, id) == {r \in 1..Len(list) : list[r]["id"] = id}

ListTerm(list, id, k) ==
  IF PositionsOf(list, id) = {} THEN 0
  ELSE ScoreDen(k) \div (k + (CHOOSE r \in PositionsOf(list, id) : TRUE))

RECURSIVE RankSum(_, _, _)
RankSum(lists, id, k) ==
  IF lists = <<>> THEN 0 ELSE ListTerm(Head(lists), id, k) + RankSum(Tail(lists), id, k)

\* the numerators are exact: k + r divides ScoreDen(k) for every rank met
ExactTerms(lists, k) ==
  \A l \in 1..Len(lists) : \A r \in 1..Len(lists[l]) :
    (ScoreDen(k) \div (k + r)) * (k + r) = ScoreDen(k)

AllIds(lists) == UNION {IdsOf(lists[l]) : l \in 1..Len(lists)}

FusedScoresAre(fused, lists, k) ==
  /\ ExactTerms(lists, k)
  /\ IdsOf(fused) = AllIds(lists)
  /\ \A i \in 1..Len(fused) : fused[i]["rrf_score"] = RankSum(lists, fused[i]["id"], k)

\* search_adk has just fused the result lists of several variants
JustFused == pc = "sa_balance" /\ inp.multi_query /\ Len(all_results) > 1

C6_RrfScoreIsRankSum ==
  /\ Returned("reciprocal_rank_fusion") => FusedScoresAre(out, inp.results_lists, inp.k)
  /\ JustFused => FusedScoresAre(candidates, all_results, 60)

\* one candidate met in two lists at different ranks, another met in one list
C6_Witness ==
  /\ Returned("reciprocal_rank_fusion")
  /\ Len(inp.results_lists) = 2
  /\ \E a, b \in IdsOf(out) :
       /\ PositionsOf(inp.results_lists[1], a) = {2}
       /\ PositionsOf(inp.results_lists[2], a) = {1}
       /\ PositionsOf(inp.results_lists[1], b) = {1}
       /\ PositionsOf(inp.results_lists[2], b) = {}

(***************************************************************************)
(* C7.  With distinct ids in each vector-store response, every candidate id *)
(* occurs at most once in the fused list (which keeps, for an id met in     *)
(* several lists, the payload first seen), at most once in the pool         *)
(* returned by balance_candidate_pool and at most once in the final         *)
(* results.                                                                 *)
(***************************************************************************)
\* the list and the rank at which the scan of the lists first meets id
FirstSeen(lists, id) ==
  LET l == CHOOSE x \in 1..Len(lists) :
             /\ PositionsOf(lists[x], id) # {}
             /\ \A y \in 1..(x - 1) : PositionsOf(lists[y], id) = {}
  IN  [list |-> l, rank |-> CHOOSE r \in PositionsOf(lists[l], id) : TRUE]

KeepsFirstSeenPayload(fused, lists) ==
  \A i \in 1..Len(fused) :
    LET at == FirstSeen(lists, fused[i]["id"])
    IN  [key \in DOMAIN fused[i] \ {"rrf_score"} |-> fused[i][key]]
          = lists[at.list][at.rank]

C7_IdsOccurOnce ==
  /\ Returned("reciprocal_rank_fusion") =>
       NoDuplicateIds(out) /\ KeepsFirstSeenPayload(out, inp.results_lists)
  /\ Returned("balance_candidate_pool") => NoDuplicateIds(out)
  /\ JustFused => KeepsFirstSeenPayload(candidates, all_results)
  /\ inp.fn = "search_adk" =>
       /\ NoDuplicateIds(candidates)
       /\ NoDuplicateIds(balanced_candidates)
       /\ NoDuplicateIds(final_results)
       /\ pc = "sa_done" => NoDuplicateIds(out.results)

\* a multi-query run that met one id in both responses, balanced the pool
\* and returned
C7_Witness ==
  /\ pc = "sa_done"
  /\ inp.multi_query
  /\ Len(all_results) = 2
  /\ IdsOf(all_results[1]) \cap IdsOf(all_results[2]) # {}
  /\ Len(balanced_candidates) > inp.rerank_candidates
  /\ Len(out.results) > 1

(***************************************************************************)
(* C8.  The output of reciprocal_rank_fusion is in non-increasing order of  *)
(* fused score, and two candidates of equal fused score are in first-seen   *)
(* order: the one met first when the input lists are scanned in variant     *)
(* order, and within a list by rank, comes first.                           *)
(***************************************************************************)
SeenBefore(lists, a, b) ==
  LET x == FirstSeen(lists, a)
      y == FirstSeen(lists, b)
  IN  x.list < y.list \/ (x.list = y.list /\ x.rank < y.rank)

FusedOrder(fused, lists) ==
  \A i, j \in 1..Len(fused) :
    i < j => /\ fused[i]["rrf_score"] >= fused[j]["rrf_score"]
             /\ fused[i]["rrf_score"] = fused[j]["rrf_score"]
                  => SeenBefore(lists, fused[i]["id"], fused[j]["id"])

C8_FusedOrderAndTies ==
  /\ Returned("reciprocal_rank_fusion") => FusedOrder(out, inp.results_lists)
  /\ JustFused => FusedOrder(candidates, all_results)

\* two candidates tie (each at rank 1 of one list) behind no one, and a
\* third, scanned before the second, has a lower score
C8_Witness ==
  /\ Returned("reciprocal_rank_fusion")
  /\ Len(out) = 3
  /\ out[1]["rrf_score"] = out[2]["rrf_score"]
  /\ out[2]["rrf_score"] > out[3]["rrf_score"]
  /\ SeenBefore(inp.results_lists, out[3]["id"], out[2]["id"])

(***************************************************************************)
(* C9.  balance_candidate_pool (default min_per_type) returns a pool of     *)
(* exactly min(T, number of candidates) items for every target size         *)
(* T >= 0, so the pool never exceeds T, also when T < 2 * min_per_type.     *)
(***************************************************************************)
C9_PoolSizeExact ==
  /\ (Returned("balance_candidate_pool") /\ inp.min_per_type = MIN_PER_TYPE_DEFAULT)
       => Len(out) = Min(inp.target_size, Len(inp.candidates))
  /\ (pc = "sa_rerank" /\ Len(candidates) > inp.rerank_candidates)
       => Len(balanced_candidates) = Min(inp.rerank_candidates, Len(candidates))

(***************************************************************************)
(* C10.  The pool returned by balance_candidate_pool holds at least         *)
(* min(doc candidates, T/2) doc and min(code candidates, T/2) code          *)
(* candidates (T/2 the integer half, as the code computes it); the chosen   *)
(* candidates of each kind are the highest-ranked of that kind in input     *)
(* order; the slots filled afterwards hold the first of the unused          *)
(* remainder in original input order.                                       *)
(***************************************************************************)
\* the pool is d leading docs, then c leading code, then the leading unused
PoolShape(pool, cands, d, c) ==
  LET first == Take(OfKind(cands, "doc"), d) \o Take(OfKind(cands, "code"), c)
      rest  == SelectSeq(cands, LAMBDA x : x["id"] \notin IdsOf(first))
  IN  /\ Len(pool) >= d + c
      /\ pool = first \o Take(rest, Len(pool) - d - c)

Finished == pc \in {"sa_done", "sa_raised", "ra_done", "ra_raised"}

\* the value returned is a response, not an exception
IsPack(response) == "warnings" \in DOMAIN response

CallsTo(fn) == {i \in 1..Len(calls) : calls[i].call = fn}

\* the entries of a list of warnings that are about `what`
WarningsAbout(ws, what) == {i \in 1..Len(ws) : ws[i].warning = what}

\* score a candidate is ordered by when it was not reranked
FusedScore(c) == Get(c, "rrf_score", c["score"])

(***************************************************************************)
(* C11.  When the reranker call fails during a run with reranking enabled,  *)
(* the run still returns an evidence pack: no exception leaves the          *)
(* function, exactly one warning is about the reranking failure, no result  *)
(* is marked as reranked and the results are in non-increasing order of     *)
(* the fused score.                                                         *)
(***************************************************************************)
RerankFailed == \E i \in CallsTo("rerank") : calls[i].failed # "none"

C11_RerankFailureDegrades ==
  (Finished /\ RerankFailed) =>
    /\ IsPack(out)
    /\ Cardinality(WarningsAbout(out.warnings, "Reranking failed")) = 1
    /\ inp.fn = "search_adk" =>
         /\ \A i \in 1..Len(out.results) : ~out.results[i]["reranked"]
         /\ \A i, j \in 1..Len(out.results) :
              i < j => FusedScore(out.results[i]) >= FusedScore(out.results[j])

(***************************************************************************)
(* C13.  When exactly one of the three embedding calls or search lanes of   *)
(* a query fails, the query is not aborted: a result pack is returned and   *)
(* the failure is recorded as a warning in that pack, not raised.           *)
(***************************************************************************)
LaneFailed ==
  \E i \in CallsTo("embed") \cup CallsTo("query_points") :
    calls[i].failed \in {"dense_docs", "dense_code", "sparse"}

C13_LaneFailureIsWarning ==
  (Finished /\ LaneFailed) =>
    /\ IsPack(out)
    /\ WarningsAbout(out.warnings, "Lane failed") # {}

(***************************************************************************)
(* C14.  In every run of search_adk the calls happen in stage order: every  *)
(* embedding call before every vector-store search, every search before     *)
(* the fusion, the fusion before the balancing, the balancing before the    *)
(* reranker call, and the reranker call before the coverage gate; the       *)
(* response is assembled after all of them.                                 *)
(***************************************************************************)
StageOf(fn) ==
  CASE fn = "embed"                  -> 1
    [] fn = "query_points"           -> 2
    [] fn = "reciprocal_rank_fusion" -> 3
    [] fn = "balance_candidate_pool" -> 4
    [] fn = "rerank"                 -> 5
    [] fn = "apply_coverage_gates"   -> 6

C14_StageOrder ==
  inp.fn = "search_adk" =>
    /\ \A i, j \in 1..Len(calls) :
         i < j => StageOf(calls[i].call) <= StageOf(calls[j].call)
    /\ pc = "sa_done" => calls[Len(calls)].call = "apply_coverage_gates"

(***************************************************************************)
(* C17.  When rerank is False or the balanced pool is empty, search_adk     *)
(* makes no reranker call, and every result it returns has reranked = False *)
(* and no rerank_score; retrieve_adk_evidence with no candidate returns a   *)
(* pack with empty evidence and a warning, and makes no reranker call.      *)
(***************************************************************************)
C17_NoRerankWhenDisabledOrEmpty ==
  /\ (inp.fn = "search_adk" /\ (~inp.rerank \/ balanced_candidates = <<>>)) =>
       /\ CallsTo("rerank") = {}
       /\ pc = "sa_done" =>
            \A i \in 1..Len(out.results) :
              /\ out.results[i]["reranked"] = FALSE
              /\ "rerank_score" \notin DOMAIN out.results[i]
  /\ (inp.fn = "retrieve_adk_evidence" /\ pc \in {"ra_rerank", "ra_done"}
        /\ candidates_list = <<>>) =>
       /\ CallsTo("rerank") = {}
       /\ pc = "ra_done" => (out.evidence = <<>> /\ Len(out.warnings) = 1)

\* a run with reranking disabled returned results that went through the
\* balancer and the gate
C17_Witness ==
  /\ pc = "sa_done"
  /\ ~inp.rerank
  /\ CallsTo("balance_candidate_pool") # {}
  /\ Len(out.results) >= 2

(***************************************************************************)
(* C12.  Whenever the underlying search raises an exception, rag_search and *)
(* rag_search_quick return normally: the response carries error and         *)
(* error_type, count 0, an empty evidence list and zeroed coverage, and its *)
(* warnings are the validation warnings gathered before the call followed   *)
(* by one 'Search failed' entry.                                            *)
(***************************************************************************)
SearchRaised == \E i \in CallsTo("grounding_search") : calls[i].failed # "none"

C12_SearchFailureIsErrorResponse ==
  (pc = "rs_done" /\ SearchRaised) =>
    /\ {"error", "error_type"} \subseteq DOMAIN out
    /\ out.error_type \in ErrorTypes
    /\ out.count = 0
    /\ out.evidence = <<>>
    /\ out.coverage = [doc_count |-> 0, code_count |-> 0, corpora |-> <<>>]
    /\ out.warnings = warnings \o <<"Search failed">>
    /\ Len(out.warnings) = 1 + Cardinality(
         {x \in {"preset", "sdk", "mode"} :
            /\ x \in DOMAIN inp
            /\ inp[x] \in {"turbo", "nosuch", "guess"}})

\* the search raised after the validation had gathered warnings
C12_Witness ==
  /\ pc = "rs_done"
  /\ SearchRaised
  /\ inp.fn = "rag_search"
  /\ Len(out.warnings) = 4
  /\ out.warnings[1] = "Unknown preset"
  /\ out.warnings[4] = "Search failed"

(***************************************************************************)
(* C15.  _normalize_query is idempotent: normalising its output gives the   *)
(* output again; and its output has no leading or trailing whitespace and   *)
(* no two adjacent whitespace characters.                                   *)
(***************************************************************************)
C15_NormalizeIdempotent ==
  Returned("_normalize_query") =>
    /\ normalize_query(out) = out
    /\ out # <<>> => (out[1] \notin Whitespace /\ out[Len(out)] \notin Whitespace)
    /\ \A i \in 1..(Len(out) - 1) : ~(out[i] \in Whitespace /\ out[i + 1] \in Whitespace)

\* a text with leading whitespace and a run of a tab and a space between two
\* words, normalised to the two words and one space
C15_Witness ==
  /\ Returned("_normalize_query")
  /\ inp.query = <<" ", "a", "\t", " ", "b">>
  /\ out = <<"a", " ", "b">>

(***************************************************************************)
(* C16.  In every evidence pack of retrieve_adk_evidence with N items, the  *)
(* rank of the i-th item is i, so the ranks are exactly 1..N in list order, *)
(* and the rerank score does not increase as the rank increases.            *)
(***************************************************************************)
C16_RanksContiguousByScore ==
  pc = "ra_done" =>
    /\ \A i \in 1..Len(out.evidence) : out.evidence[i].rank = i
    /\ \A i, j \in 1..Len(out.evidence) :
         i < j => out.evidence[i].rerank_score >= out.evidence[j].rerank_score

\* the reranker put a code item first, and the selection, which takes its
\* forced doc items before its code items, had to be put in score order
C16_Witness ==
  /\ pc = "ra_done"
  /\ Len(out.evidence) >= 3
  /\ scored_candidates[1].point.kind = "code"
  /\ EvidenceOfKind("doc") >= 1
  /\ final_evidence[1].point.kind = "code"

(***************************************************************************)
(* C18.  For every filter the caller supplies (filters of search_adk,       *)
(* filter_spec of retrieve_adk_evidence), each vector-store request carries *)
(* the same filter on its three prefetch lanes, and that filter holds       *)
(* exactly one must-condition for every key of the supplied filter:         *)
(* equality for a scalar, membership for a list, range for a dict.          *)
(***************************************************************************)
SuppliedFilter == IF inp.fn = "search_adk" THEN inp.filters ELSE inp.filter_spec

ConditionFor(value) ==
  CASE value = "scalar" -> "match_value"
    [] value = "list"   -> "match_any"
    [] OTHER            -> "range"

C18_FilterOnEveryLane ==
  inp.fn \in {"search_adk", "retrieve_adk_evidence"} =>
    \A i \in CallsTo("query_points") :
      LET prefetch == calls[i].arg
      IN  /\ prefetch[1] = prefetch[2] /\ prefetch[2] = prefetch[3]
          /\ Len(prefetch[1].must) = Len(SuppliedFilter)
          /\ \A n \in 1..Len(SuppliedFilter) :
               /\ prefetch[1].must[n].key = SuppliedFilter[n].key
               /\ prefetch[1].must[n].cond = ConditionFor(SuppliedFilter[n].value)

(***************************************************************************)
(* C19.  For every evidence item of retrieve_adk_evidence: a doc item is    *)
(* cited in the chunk-id form; a code item is cited in the line-range form  *)
(* whenever its payload has a start line, whatever the line number, and in  *)
(* the chunk-id form only when it has none.                                 *)
(***************************************************************************)
C19_CitationForm ==
  pc = "ra_done" =>
    \A i \in 1..Len(out.evidence) :
      LET payload  == final_evidence[i].point
          citation == out.evidence[i].citation
      IN  /\ payload.kind = "doc" => citation.form = "chunk_id"
          /\ payload.kind = "code" =>
               IF payload.start_line # NoLine
                 THEN citation.form = "line_range" /\ citation.start = payload.start_line
                 ELSE citation.form = "chunk_id"

(***************************************************************************)
(* C20.  After any sequence of get_settings calls with any mix of env_file  *)
(* and config_file arguments, a call returns the Settings instance that an  *)
(* earlier call with the same arguments returned, and does not load the     *)
(* configuration files again.                                               *)
(***************************************************************************)
C20_SameArgsSameInstance ==
  \A i, j \in 1..Len(settings_returned) :
    (i < j /\ settings_returned[i].args = settings_returned[j].args) =>
      /\ settings_returned[j].instance = settings_returned[i].instance
      /\ ~settings_returned[j].loaded

(***************************************************************************)
(* C21.  Whenever search_adk invokes the reranker, the candidate list after *)
(* reranking has exactly the ids of the balanced pool sent to it (none      *)
(* dropped, none added), for every value of rerank_candidates.              *)
(***************************************************************************)
C21_RerankKeepsWholePool ==
  (inp.fn = "search_adk" /\ pc = "sa_gate" /\ CallsTo("rerank") # {})
    => /\ IdsOf(candidates) = IdsOf(balanced_candidates)
       /\ Len(candidates) = Len(balanced_candidates)

(***************************************************************************)
(* C22.  balance_candidate_pool(candidates, T) is a no-op when              *)
(* len(candidates) <= T: it returns the same candidates in the same order   *)
(* as the input, for every mix of doc, code and other candidates.           *)
(***************************************************************************)
C22_BalanceNoOpWithinTarget ==
  (/\ Returned("balance_candidate_pool")
   /\ inp.min_per_type = MIN_PER_TYPE_DEFAULT
   /\ Len(inp.candidates) <= inp.target_size)
    => out = inp.candidates

(***************************************************************************)
(* C23.  In apply_coverage_gates the force-selected items are exactly the   *)
(* first min_docs doc and the first min_code code candidates in input       *)
(* order, and every other selected item precedes, in input order, every     *)
(* candidate left unselected: the fill step takes the highest-ranked        *)
(* unselected candidates and skips none.                                    *)
(***************************************************************************)
\* position in the input of the candidate with this id (ids are distinct)
InputPosition(cands, id) == CHOOSE i \in 1..Len(cands) : cands[i]["id"] = id

\* ids of the n first candidates of a kind, read off the input list
LeadingOfKind(cands, kind, n) ==
  {cands[i]["id"] : i \in {j \in 1..Len(cands) :
      /\ cands[j]["kind"] = kind
      /\ Cardinality({h \in 1..j : cands[h]["kind"] = kind}) <= n}}

GateDistinctInput ==
  /\ Returned("apply_coverage_gates")
  /\ NoDuplicateIds(inp.candidates)

C23_ForcedThenFillInOrder ==
  GateDistinctInput =>
    LET cands    == inp.candidates
        forced   == LeadingOfKind(cands, "doc", inp.min_docs)
                      \cup LeadingOfKind(cands, "code", inp.min_code)
        selected == IdsOf(out.selected)
        filled   == selected \ forced
        left     == IdsOf(cands) \ selected
    IN  /\ forced \subseteq selected
        /\ selected \subseteq IdsOf(cands)
        /\ Cardinality(filled) = Max(0, Min(inp.top_k - Cardinality(forced),
                                            Len(cands) - Cardinality(forced)))
        /\ \A s \in filled : \A u \in left :
             InputPosition(cands, s) < InputPosition(cands, u)

\* a forced item ranked below a candidate that is left out, a filled item,
\* and the fill stepping over an already selected candidate
C23_Witness ==
  /\ GateDistinctInput
  /\ LET cands    == inp.candidates
         forced   == LeadingOfKind(cands, "doc", inp.min_docs)
                       \cup LeadingOfKind(cands, "code", inp.min_code)
         selected == IdsOf(out.selected)
         filled   == selected \ forced
         left     == IdsOf(cands) \ selected
     IN  /\ \E f \in forced : \E u \in left :
              InputPosition(cands, u) < InputPosition(cands, f)
         /\ \E s \in filled : \E f \in forced :
              InputPosition(cands, f) < InputPosition(cands, s)
         /\ left # {}

(***************************************************************************)
(* C27.  For every candidate list with distinct ids and every               *)
(* top_k >= min_docs + min_code, apply_coverage_gates returns exactly       *)
(* min(top_k, len(candidates)) items.                                       *)
(***************************************************************************)
C27_ExactlyTopKItems ==
  (GateDistinctInput /\ inp.top_k >= inp.min_docs + inp.min_code)
    => Len(out.selected) = Min(inp.top_k, Len(inp.candidates))

\* the fill steps over a forced candidate and still fills every slot, and
\* candidates are left over
C27_Witness ==
  /\ GateDistinctInput
  /\ inp.top_k >= inp.min_docs + inp.min_code
  /\ inp.min_docs + inp.min_code >= 1
  /\ Len(out.selected) = inp.top_k
  /\ Len(inp.candidates) > inp.top_k
  /\ \E i \in 1..Len(inp.candidates) : \E j \in 1..Len(inp.candidates) :
       /\ i < j
       /\ inp.candidates[i]["id"] \in
            LeadingOfKind(inp.candidates, "doc", inp.min_docs)
              \cup LeadingOfKind(inp.candidates, "code", inp.min_code)
       /\ inp.candidates[j]["id"] \in IdsOf(out.selected)
       /\ inp.candidates[j]["id"] \notin
            LeadingOfKind(inp.candidates, "doc", inp.min_docs)
              \cup LeadingOfKind(inp.candidates, "code", inp.min_code)

(***************************************************************************)
(* C24.  When rag_search is called with preset 'speed' and every other      *)
(* argument left at its default, the underlying search is invoked with      *)
(* rerank=False and expand_context=False: the preset's 'skip reranking, no  *)
(* expansion' parameters reach the search unchanged.                        *)
(***************************************************************************)
\* rag_search(query, preset="speed"): the defaults of the signature (156-182)
SpeedPresetOnly ==
  /\ inp.fn = "rag_search"
  /\ inp.preset = "speed"
  /\ inp.sdk = "None" /\ inp.corpus = <<>> /\ inp.kind = "None"
  /\ inp.top_k = RAG_TOP_K_DEFAULT
  /\ inp.mode = "build"
  /\ inp.expand_context = TRUE
  /\ inp.verbose = FALSE

C24_SpeedPresetReachesSearch ==
  SpeedPresetOnly =>
    \A i \in CallsTo("grounding_search") :
      /\ calls[i].arg.rerank = FALSE
      /\ calls[i].arg.expand_context = FALSE

(***************************************************************************)
(* C25.  In rag_search every invalid selector degrades instead of failing:  *)
(* an unknown preset is replaced by 'balanced', an unknown mode by          *)
(* 'build', an unknown sdk by no sdk filter (falling back to the corpus     *)
(* filter if one was given); each adds exactly one warning, and these       *)
(* warnings stand in the response before the pipeline's own warnings, on    *)
(* the success path and on the error path.                                  *)
(***************************************************************************)
\* the selectors of the call that name nothing known
UnknownSelectors ==
  (IF inp.preset \notin PresetNames THEN {"Unknown preset"} ELSE {})
  \cup (IF inp.sdk \notin SdkNames \cup {"None"} THEN {"Unknown SDK"} ELSE {})
  \cup (IF inp.mode \notin ValidModes THEN {"Unknown mode"} ELSE {})

\* the warnings the search pipeline and the error handler add
PipelineWarnings == {"Coverage gate", "Search failed"}

C25_InvalidSelectorsDegrade ==
  (inp.fn = "rag_search" /\ pc = "rs_done") =>
    /\ Cardinality(CallsTo("grounding_search")) = 1
    /\ \A c \in CallsTo("grounding_search") :
         LET kw == calls[c].arg
         IN  /\ inp.preset \notin PresetNames =>
                  /\ kw.first_stage_k = 80
                  /\ kw.rerank_candidates = 60
                  /\ kw.rerank = TRUE
                  /\ DOMAIN kw = {"top_k", "mode", "filters", "verbose", "first_stage_k",
                                  "rerank_candidates", "rerank", "expand_context"}
             /\ inp.mode \notin ValidModes => kw.mode = "build"
             /\ inp.sdk \notin SdkNames \cup {"None"} =>
                  LET about_corpus == SelectSeq(kw.filters, LAMBDA f : f.key = "corpus")
                  IN  about_corpus = IF inp.corpus = <<>> THEN <<>>
                                     ELSE <<[key |-> "corpus",
                                             value |-> <<"scalar", inp.corpus[1]>>]>>
    /\ "warnings" \in DOMAIN out
    /\ \A w \in UnknownSelectors :
         Cardinality({i \in 1..Len(out.warnings) : out.warnings[i] = w}) = 1
    /\ \A i \in 1..Len(out.warnings) :
         out.warnings[i] \in UnknownSelectors \cup PipelineWarnings
    /\ \A i, j \in 1..Len(out.warnings) :
         (out.warnings[i] \in UnknownSelectors /\ out.warnings[j] \in PipelineWarnings)
           => i < j

\* all three selectors unknown, a corpus given, and the search returned
\* results with a warning of its own
C25_Witness ==
  /\ inp.fn = "rag_search"
  /\ pc = "rs_done"
  /\ Cardinality(UnknownSelectors) = 3
  /\ inp.corpus # <<>>
  /\ "error" \notin DOMAIN out
  /\ out.count > 0
  /\ Len(out.warnings) = 4
  /\ out.warnings[4] = "Coverage gate"

(***************************************************************************)
(* C26.  In the response of search_adk the coverage map gives, for every    *)
(* corpus value that occurs in the final results, exactly the number of     *)
(* final results with that corpus, so that the counts sum to the            *)
(* response's count; no corpus with zero results is listed.                 *)
(***************************************************************************)
\* number of results of the response with this corpus
ResultsWithCorpus(response, corpus) ==
  Cardinality({i \in 1..Len(response.results) : response.results[i]["corpus"] = corpus})

RECURSIVE SumOver(_, _)
SumOver(f, keys) ==
  IF keys = {} THEN 0
  ELSE LET key == CHOOSE x \in keys : TRUE
       IN  f[key] + SumOver(f, keys \ {key})

C26_CoverageCountsEveryCorpus ==
  (inp.fn = "search_adk" /\ pc = "sa_done") =>
    /\ DOMAIN out.coverage =
         {out.results[i]["corpus"] : i \in 1..Len(out.results)}
    /\ \A corpus \in DOMAIN out.coverage :
         /\ out.coverage[corpus] = ResultsWithCorpus(out, corpus)
         /\ out.coverage[corpus] > 0
    /\ SumOver(out.coverage, DOMAIN out.coverage) = out.count

(***************************************************************************)
(* C29.  Every response of retrieve_adk_evidence carries in its query       *)
(* field the caller's original query text unchanged, on the normal path     *)
(* and on the no-candidates path alike.                                     *)
(***************************************************************************)
C29_QueryEchoedUnchanged ==
  (inp.fn = "retrieve_adk_evidence" /\ pc = "ra_done") => out.query = inp.query

(***************************************************************************)
(* C28.  reciprocal_rank_fusion, balance_candidate_pool, the rerank mapping *)
(* in search_adk and apply_coverage_gates leave their inputs unchanged:     *)
(* after each call the input lists have the same length and order as        *)
(* before, and no input candidate record has gained or changed an           *)
(* rrf_score, rerank_score or reranked field.                               *)
(***************************************************************************)
ScoreFields == {"rrf_score", "rerank_score", "reranked"}

\* the lists and dicts a helper was handed (`before`) are in the heap it
\* left behind as they were
InputsUnchanged(before) ==
  /\ \A l \in 1..Len(before.lists) : heap.lists[l] = before.lists[l]
  /\ \A a \in 1..Len(before.dicts) : \A key \in ScoreFields :
       /\ (key \in DOMAIN heap.dicts[a]) <=> (key \in DOMAIN before.dicts[a])
       /\ key \in DOMAIN before.dicts[a] => heap.dicts[a][key] = before.dicts[a][key]

\* the helper that search_adk called in the step just taken
JustCalled(fn, at) ==
  /\ inp.fn = "search_adk"
  /\ pc = at
  /\ calls # <<>>
  /\ calls[Len(calls)].call = fn

C28_HelpersLeaveInputsUnchanged ==
  /\ Returned("reciprocal_rank_fusion")
       => InputsUnchanged(HeapOfLists(EmptyHeap, inp.results_lists))
  /\ Returned("balance_candidate_pool") => InputsUnchanged(HeapOfList(inp.candidates))
  /\ Returned("apply_coverage_gates") => InputsUnchanged(HeapOfList(inp.candidates))
  /\ JustCalled("reciprocal_rank_fusion", "sa_balance")
       => InputsUnchanged(HeapOfLists(EmptyHeap, all_results))
  /\ JustCalled("balance_candidate_pool", "sa_rerank")
       => InputsUnchanged(HeapOfList(candidates))
  /\ JustCalled("rerank", "sa_gate") => InputsUnchanged(HeapOfList(balanced_candidates))
  /\ JustCalled("apply_coverage_gates", "sa_return")
       => InputsUnchanged(HeapOfList(candidates))

\* the rerank mapping has written scores and flags: the list it built holds
\* the reranked candidates, as new dicts, beside the untouched pool
C28_Witness ==
  /\ JustCalled("rerank", "sa_gate")
  /\ Len(balanced_candidates) >= 2
  /\ Len(heap.lists) = 2
  /\ Deref(heap, 2) = candidates
  /\ Deref(heap, 1) = balanced_candidates
  /\ \A i \in 1..Len(heap.lists[2]) :
       /\ heap.lists[2][i] > Len(balanced_candidates)
       /\ heap.dicts[heap.lists[2][i]]["reranked"]
  /\ \E i \in 1..Len(heap.lists[2]) :
       Deref(heap, 2)[i]["id"] # Deref(heap, 1)[i]["id"]

(***************************************************************************)
(* C30.  Two rag_search / rag_search_quick calls running concurrently in    *)
(* the executor thread pool do not affect each other: under every           *)
(* interleaving each call's response (evidence, coverage, warnings) equals  *)
(* the response it would produce when run alone with the same answers of    *)
(* the external services, and no warning or candidate of one query appears  *)
(* in the other's response.                                                 *)
(***************************************************************************)
\* the response of a call that runs alone
AloneResponse(args, answer) ==
  IF answer.raises # "None"
    THEN ErrorResponse(ValidationWarnings(args), answer.raises)
    ELSE SearchResponse(args, ValidationWarnings(args),
                        grounding_search(SearchKwargs(args), answer))

\* ids of the candidates the services hold for a call
AnswerIds(answer) ==
  {answer.points[i]["id"] : i \in 1..Len(answer.points)}
    \cup {answer.adjacent[i]["id"] : i \in 1..Len(answer.adjacent)}

\* the warnings that belong to a call: of its validation, of its pipeline,
\* of its failure
OwnWarnings(task) ==
  {ValidationWarnings(task.args)[i] : i \in 1..Len(ValidationWarnings(task.args))}
    \cup {task.answer.warnings[i] : i \in 1..Len(task.answer.warnings)}
    \cup (IF task.answer.raises # "None" THEN {"Search failed"} ELSE {})

====
